---- MODULE Spec2Model ----
(***************************************************************************)
(* Model of the loopline model loader (lib/loader.js), the application     *)
(* facade it registers models on (lib/line.js) and the registry it creates *)
(* and configures them with (lib/registry.js).                             *)
(*                                                                         *)
(* One behaviour is one application: datasources are defined on it, then   *)
(* load(line, root, options) runs: the instructions are built and sorted   *)
(* by inheritance, the models are defined, and the models that carry a     *)
(* config are registered on the application and attached to a datasource.  *)
(*                                                                         *)
(* Model names are numbered in the order in which the scanner discovers    *)
(* them (the key order of the definition registry).  The loader never      *)
(* compares two names other than for equality, so every discovery order of *)
(* an inheritance graph is a renaming of a graph over this fixed order:    *)
(* the bases range over all names, before and after the derived model.     *)
(***************************************************************************)
EXTENDS Integers, Sequences, FiniteSets, TLC

\* ------------------------------------------------------------------ bounds
MaxModels == 3          \* number of model names a project can define
MaxDeclared == 2        \* number of keys of an explicit models map
MaxMixins == 2          \* length of the mixins list of a load call
MaxFiles == 2           \* number of entries of a source directory
MaxListed == 2          \* length of the modelDefinitions list of a load call
MaxAcls == 2            \* length of the acls list of a model config
MaxOptions == 2         \* number of keys of the options of a model config
MaxCalls == 2           \* number of configureModel calls on one model
MaxModuleDirs == 2      \* number of module-search directories of a project

\* ------------------------------------------------------------------ values
NameSeq == <<"A", "B", "C", "D", "E", "F">>
Names == {NameSeq[i] : i \in 1..MaxModels}

\* JavaScript's undefined and null, as values of a name-typed slot
Undefined == "undefined"
Null == "null"

\* models the Registry constructor defines on the model builder
BuiltinModels == {"Model", "PersistedModel"}
\* a base name with no local definition: one that exists, one that does not
ExternalNames == {"PersistedModel", "User"}

DataSourceNames == {"default", "db"}

UndefinedDefinition == [name |-> Undefined, base |-> Undefined, options |-> [base |-> Undefined]]
Definition(n, b, ob) == [name |-> n, base |-> b, options |-> [base |-> ob]]

UndefinedConfig == [type |-> "undefined", dataSource |-> Undefined]
NullConfig == [type |-> "null", dataSource |-> Undefined]
Config(ds) == [type |-> "object", dataSource |-> ds]

\* JavaScript truthiness of a config / a definition / a name-typed slot
Truthy(v) == v \notin {Undefined, Null}
TruthyConfig(c) == c.type = "object"

NoError == [message |-> "none", model |-> Undefined, base |-> Undefined]
Error(msg, m, b) == [message |-> msg, model |-> m, base |-> b]

\* ------------------------------------------------------- loader: helpers
getBaseModelName(modelDefinition) ==
    IF modelDefinition = UndefinedDefinition THEN Undefined
    ELSE IF Truthy(modelDefinition.base) THEN modelDefinition.base
    ELSE modelDefinition.options.base

\* registry[name] && registry[name].definition
RegistryDefinition(registry, name) ==
    IF name \in DOMAIN registry THEN registry[name].definition ELSE UndefinedDefinition

\* variant: the base is queued without the test that it has a local definition
RECURSIVE addAllBaseModelsLoopAnyBase(_, _, _, _)
addAllBaseModelsLoopAnyBase(registry, modelNames, visited, result) ==
    IF modelNames = <<>> THEN result
    ELSE LET name == Head(modelNames)
             rest == Tail(modelNames)
         IN IF name \in visited THEN addAllBaseModelsLoopAnyBase(registry, rest, visited, result)
            ELSE LET definition == RegistryDefinition(registry, name)
                     base == getBaseModelName(definition)
                     queue == IF definition # UndefinedDefinition /\ Truthy(base)
                              THEN Append(rest, base) ELSE rest
                 IN addAllBaseModelsLoopAnyBase(registry, queue, visited \cup {name},
                                                Append(result, name))

\* variant: a popped name is not checked against the visited names; a base is
\* queued unless it has been visited
RECURSIVE addAllBaseModelsLoopNoSkip(_, _, _, _)
addAllBaseModelsLoopNoSkip(registry, modelNames, visited, result) ==
    IF modelNames = <<>> THEN result
    ELSE LET name == Head(modelNames)
             rest == Tail(modelNames)
             definition == RegistryDefinition(registry, name)
             base == getBaseModelName(definition)
             queue == IF /\ definition # UndefinedDefinition
                         /\ base \in DOMAIN registry
                         /\ base \notin visited \cup {name}
                      THEN Append(rest, base) ELSE rest
         IN addAllBaseModelsLoopNoSkip(registry, queue, visited \cup {name},
                                       Append(result, name))

RECURSIVE addAllBaseModelsLoop(_, _, _, _)
addAllBaseModelsLoop(registry, modelNames, visited, result) ==
    IF modelNames = <<>> THEN result
    ELSE LET name == Head(modelNames)
             rest == Tail(modelNames)
         IN IF name \in visited THEN addAllBaseModelsLoop(registry, rest, visited, result)
            ELSE LET definition == RegistryDefinition(registry, name)
                     base == getBaseModelName(definition)
                     queue == IF definition # UndefinedDefinition /\ base \in DOMAIN registry
                              THEN Append(rest, base) ELSE rest
                 IN addAllBaseModelsLoop(registry, queue, visited \cup {name}, Append(result, name))

\* variant: the declared names are returned without their bases
addAllBaseModelsDeclaredOnly(registry, modelNames) == modelNames

addAllBaseModels(registry, modelNames) ==
    addAllBaseModelsLoop(registry, modelNames, {}, <<>>)

\* ------------------------------------------------------------- toposort
SeqContains(s, x) == \E i \in 1..Len(s) : s[i] = x

RECURSIVE uniqueNodesLoop(_, _, _)
uniqueNodesLoop(edges, i, res) ==
    IF i > Len(edges) THEN res
    ELSE LET r1 == IF SeqContains(res, edges[i][1]) THEN res ELSE Append(res, edges[i][1])
             r2 == IF SeqContains(r1, edges[i][2]) THEN r1 ELSE Append(r1, edges[i][2])
         IN uniqueNodesLoop(edges, i + 1, r2)

uniqueNodes(edges) == uniqueNodesLoop(edges, 1, <<>>)

Outgoing(edges, node) == SelectSeq(edges, LAMBDA e : e[1] = node)

RECURSIVE visit(_, _, _, _)
RECURSIVE visitChildren(_, _, _, _, _)
\* st = [sorted, visited, cyclic]: sorted is filled from its end, cyclic is the throw
visit(edges, node, predecessors, st) ==
    IF st.cyclic THEN st
    ELSE IF SeqContains(predecessors, node) THEN [st EXCEPT !.cyclic = TRUE]
    ELSE IF node \in st.visited THEN st
    ELSE LET outgoing == Outgoing(edges, node)
             st1 == [st EXCEPT !.visited = @ \cup {node}]
             st2 == visitChildren(edges, outgoing, Len(outgoing), Append(predecessors, node), st1)
         IN IF st2.cyclic THEN st2 ELSE [st2 EXCEPT !.sorted = <<node>> \o @]

visitChildren(edges, outgoing, i, preds, st) ==
    IF i = 0 \/ st.cyclic THEN st
    ELSE visitChildren(edges, outgoing, i - 1, preds, visit(edges, outgoing[i][2], preds, st))

RECURSIVE toposortLoop(_, _, _, _)
toposortLoop(edges, nodes, i, st) ==
    IF i = 0 \/ st.cyclic THEN st
    ELSE toposortLoop(edges, nodes, i - 1,
                      IF nodes[i] \in st.visited THEN st ELSE visit(edges, nodes[i], <<>>, st))

\* result: [sorted |-> the sorted names, cyclic |-> TRUE when the sort throws]
toposort(edges) ==
    LET nodes == uniqueNodes(edges)
    IN toposortLoop(edges, nodes, Len(nodes), [sorted |-> <<>>, visited |-> {}, cyclic |-> FALSE])

\* --------------------------------------------- loader: the instructions
\* Object.keys of an object whose keys are the members of keySet
KeyOrder == NameSeq \o <<"PersistedModel", "User">>
ObjectKeys(keySet) == SelectSeq(KeyOrder, LAMBDA k : k \in keySet)

\* variant: a name the models map does not configure gets the default config
createModelInstructionsDefaultConfig(registry, options, name) ==
    [name |-> name,
     config |-> IF options.models.present /\ name \in DOMAIN options.models.map
                THEN options.models.map[name]
                ELSE Config(options.dataSouce),
     definition |-> RegistryDefinition(registry, name),
     sourceFile |-> IF name \in DOMAIN registry THEN registry[name].sourceFile ELSE Undefined,
     _model |-> Undefined]

createModelInstructions(registry, options, name) ==
    [name |-> name,
     config |-> IF options.models.present
                THEN (IF name \in DOMAIN options.models.map
                      THEN options.models.map[name] ELSE UndefinedConfig)
                ELSE Config(options.dataSouce),
     definition |-> RegistryDefinition(registry, name),
     sourceFile |-> IF name \in DOMAIN registry THEN registry[name].sourceFile ELSE Undefined,
     _model |-> Undefined]

InstructionFor(instructions, name) ==
    LET idx == {i \in 1..Len(instructions) : instructions[i].name = name}
    IN IF idx = {} THEN Undefined ELSE instructions[CHOOSE i \in idx : TRUE]

\* variant: the instructions are returned in the order they were assembled in
sortByInheritanceUnsorted(instructions) ==
    LET edges == [i \in 1..Len(instructions) |->
                    <<getBaseModelName(instructions[i].definition), instructions[i].name>>]
    IN [instructions |-> instructions, cyclic |-> toposort(edges).cyclic]

\* variant: the error of the sort is caught and what was sorted so far is returned
sortByInheritanceCatching(instructions) ==
    LET edges == [i \in 1..Len(instructions) |->
                    <<getBaseModelName(instructions[i].definition), instructions[i].name>>]
        sorted == toposort(edges)
        names == {instructions[i].name : i \in 1..Len(instructions)}
        kept == SelectSeq(sorted.sorted, LAMBDA n : n \in names)
    IN [instructions |-> [i \in 1..Len(kept) |-> InstructionFor(instructions, kept[i])],
        cyclic |-> FALSE]

\* variant: edges are built for the instructions that carry a definition only
sortByInheritanceDefinedOnly(instructions) ==
    LET defined == SelectSeq(instructions, LAMBDA inst : inst.definition # UndefinedDefinition)
        edges == [i \in 1..Len(defined) |->
                    <<getBaseModelName(defined[i].definition), defined[i].name>>]
        sorted == toposort(edges)
        names == {instructions[i].name : i \in 1..Len(instructions)}
        kept == SelectSeq(sorted.sorted, LAMBDA n : n \in names)
    IN [instructions |-> [i \in 1..Len(kept) |-> InstructionFor(instructions, kept[i])],
        cyclic |-> sorted.cyclic]

\* result: [instructions, cyclic]
sortByInheritance(instructions) ==
    LET edges == [i \in 1..Len(instructions) |->
                    <<getBaseModelName(instructions[i].definition), instructions[i].name>>]
        sorted == toposort(edges)
        names == {instructions[i].name : i \in 1..Len(instructions)}
        kept == SelectSeq(sorted.sorted, LAMBDA n : n \in names)
    IN [instructions |-> [i \in 1..Len(kept) |-> InstructionFor(instructions, kept[i])],
        cyclic |-> sorted.cyclic]

buildAllModelInstructions(registry, options) ==
    LET modelNamesToBuild ==
            addAllBaseModels(registry,
                ObjectKeys(IF options.models.present
                           THEN DOMAIN options.models.map ELSE DOMAIN registry))
        instructions == [i \in 1..Len(modelNamesToBuild) |->
                            createModelInstructions(registry, options, modelNamesToBuild[i])]
    IN sortByInheritance(instructions)

\* ------------------------------------------------------------- registry
\* buildModelOptionsFromConfig, for the key `base`
buildModelOptionsFromConfig(config) ==
    [base |-> IF config.options.base # Undefined THEN config.options.base ELSE config.base]

\* variant: a base the registry does not know is replaced by the default base
createModelDefaultBase(models, config) ==
    [models |-> [n \in DOMAIN models \cup {config.name} |->
                    IF n = config.name THEN [base |-> "PersistedModel"] ELSE models[n]],
     error |-> NoError]

\* result: [models, error]
createModel(models, config) ==
    LET options == buildModelOptionsFromConfig(config)
        BaseModel == options.base
    IN IF Truthy(BaseModel) /\ BaseModel \notin DOMAIN models
       THEN [models |-> models,
             error |-> Error("Model not found: model is extending an unknown model",
                             config.name, BaseModel)]
       ELSE [models |-> [n \in DOMAIN models \cup {config.name} |->
                            IF n = config.name
                            THEN [base |-> IF Truthy(BaseModel) THEN BaseModel ELSE "PersistedModel"]
                            ELSE models[n]],
             error |-> NoError]

findModel(models, modelOrName) ==
    IF modelOrName \in DOMAIN models THEN modelOrName ELSE Undefined

\* result: [model, error]
getModel(models, modelOrName) ==
    LET model == findModel(models, modelOrName)
    IN IF Truthy(model) THEN [model |-> model, error |-> NoError]
       ELSE [model |-> Undefined, error |-> Error("Model not found", modelOrName, Undefined)]

\* ---------------------------------------------------------------- state
VARIABLES
    pc,                 \* "ready", "defineModels", "attach", "done", "failed"
    dataSources,        \* line.dataSources: the names of the datasources defined
    registry,           \* the definitions found on disk: name -> [definition, sourceFile]
    options,            \* the options of the load call
    instructions,       \* instructions.models
    idx,                \* position of the forEach of the current pass
    models,             \* registry.modelBuilder.models: name -> [base]
    created,            \* the names createModel returned a model for, in order
    lineModels,         \* line.models(): the list of registered models
    lineModelsByName,   \* line.models[name]: the keys registered
    attached,           \* model name -> the datasource the model is attached to
    builderMixins,      \* modelBuilder.mixins: the names of the mixins defined
    customized,         \* the models a customization script's export was called with, in order
    disk,               \* the file system: directory -> [exists, readable, files]
    scannedSources,     \* the source directories findModelDefinitions has listed, in order
    modelConfig,        \* the config registry.configureModel is called with
    settings,           \* ModelCtor.settings of the model being configured
    configured,         \* the configureModel calls made, in order
    resolving,          \* the arguments of a tryResolveAppPath call and the files it sees
    resolved,           \* what the tryResolveAppPath call returned
    error               \* the error the load call threw

vars == <<pc, dataSources, registry, options, instructions, idx, models, created,
          lineModels, lineModelsByName, attached,
          builderMixins, customized, disk, scannedSources,
          modelConfig, settings, configured, resolving, resolved, error>>

\* no call of registry.configureModel is followed
NoConfigureCall ==
    /\ modelConfig = <<>>
    /\ settings = <<>>
    /\ configured = <<>>

\* no call of tryResolveAppPath is followed
NoResolveCall ==
    /\ resolving = <<>>
    /\ resolved = Undefined

Bases == {Undefined} \cup Names \cup ExternalNames

\* the configs a models map gives a model
ConfigValues == {NullConfig, Config("default"), Config("db")}

\* the definition registries: every subset of the names, every base
Registries ==
    UNION {{[n \in S |-> [definition |-> IF inOptions THEN Definition(n, Undefined, basef[n])
                                                     ELSE Definition(n, basef[n], Undefined),
                          sourceFile |-> Undefined]] : basef \in [S -> Bases]}
           : <<S, inOptions>> \in (SUBSET Names) \X BOOLEAN}

NoModels == [present |-> FALSE, map |-> <<>>]

\* options.sources || ['./models']
DefaultSources == <<"./models">>

\* load(line, root, {dataSource / dataSouce}) without a models map
DefaultOptions ==
    {[dataSource |-> o[1], dataSouce |-> o[2], models |-> NoModels, mixins |-> <<>>,
      sources |-> DefaultSources, modelDefinitions |-> <<>>] :
        o \in {<<Undefined, Undefined>>, <<"default", Undefined>>,
               <<"db", Undefined>>, <<Undefined, "db">>}}

\* load(line, root, {models: {...}})
ModelsOptions ==
    UNION {{[dataSource |-> Undefined, dataSouce |-> Undefined,
             models |-> [present |-> TRUE, map |-> m], mixins |-> <<>>,
             sources |-> DefaultSources, modelDefinitions |-> <<>>] : m \in [K -> ConfigValues]}
           : K \in {K \in SUBSET (Names \cup ExternalNames) : Cardinality(K) <= MaxDeclared}}

\* the definition registries without inheritance
FlatRegistries == {r \in Registries : \A n \in DOMAIN r : getBaseModelName(r[n].definition) = Undefined}

\* load(line, root, {models: {...}}) where every key is configured alike
UniformModelsOptions ==
    {o \in ModelsOptions : \A k \in DOMAIN o.models.map : o.models.map[k] = Config("default")}

\* the application after loopline(): the registry holds the built-in models.
\* The definition registry is given: the scan that produced it is over.
InitApplication ==
    /\ pc = "ready"
    /\ NoConfigureCall
    /\ NoResolveCall
    /\ disk = <<>>
    /\ scannedSources = <<>>
    /\ instructions = <<>>
    /\ idx = 0
    /\ models = [n \in BuiltinModels |-> [base |-> IF n = "Model" THEN Undefined ELSE "Model"]]
    /\ created = <<>>
    /\ lineModels = <<>>
    /\ lineModelsByName = {}
    /\ attached = <<>>
    /\ builderMixins = {}
    /\ customized = <<>>
    /\ error = NoError

\* every inheritance graph, loaded into an application that has its datasources:
\* without a models map, or, for the graphs that name the base with the key
\* `base`, with a map over the local names and PersistedModel
InitInheritance ==
    /\ InitApplication
    /\ dataSources = DataSourceNames
    /\ registry \in Registries
    /\ options \in {o \in DefaultOptions : o.dataSource = Undefined /\ o.dataSouce = Undefined}
                   \cup {o \in UniformModelsOptions : "User" \notin DOMAIN o.models.map}
    /\ options.models.present =>
          \A n \in DOMAIN registry : registry[n].definition.options.base = Undefined

\* every combination of options, configs and datasources, over flat definitions
InitWiring ==
    /\ InitApplication
    /\ dataSources = {}
    /\ registry \in FlatRegistries
    /\ options \in DefaultOptions \cup ModelsOptions

\* the options of InitInheritance whose models map names local definitions only
LocalOptions ==
    {o \in DefaultOptions : o.dataSource = Undefined /\ o.dataSouce = Undefined}
    \cup {o \in UniformModelsOptions : DOMAIN o.models.map \subseteq Names}

\* what a customization script next to a definition file exports
ScriptFiles == {Undefined, "function.js", "object.js"}

\* flat definitions, each with or without a customization script
ScriptRegistries ==
    UNION {{[n \in S |-> [definition |-> Definition(n, Undefined, Undefined),
                          sourceFile |-> filef[n]]] : filef \in [S -> ScriptFiles]}
           : S \in SUBSET Names}

\* every combination of customization scripts
InitScripts ==
    /\ InitApplication
    /\ dataSources = DataSourceNames
    /\ registry \in ScriptRegistries
    /\ options \in LocalOptions

\* definitions of which one sets both base and options.base, to different names
BothBasesRegistries ==
    UNION {{[n \in S |-> [definition |-> IF n = both THEN Definition(n, b[1], b[2])
                                                      ELSE Definition(n, Undefined, Undefined),
                          sourceFile |-> Undefined]]
            : b \in {b \in (Bases \ {Undefined}) \X (Bases \ {Undefined}) : b[1] # b[2]}}
           : <<S, both>> \in {x \in (SUBSET Names) \X Names : x[2] \in x[1]}}

InitBothBases ==
    /\ InitApplication
    /\ dataSources = DataSourceNames
    /\ registry \in BothBasesRegistries
    /\ options \in LocalOptions

\* the entries of a mixins option: {name, sourceFile}
MixinNames == {"TimeStamp", "Audit"}
MixinEntries == [name : MixinNames, sourceFile : {"function.js", "model.js", "object.js"}]
MixinsOptions == UNION {[1..n -> MixinEntries] : n \in 1..MaxMixins}

\* load(line, root, {mixins: [...]}) over at most one flat definition
InitMixins ==
    /\ InitApplication
    /\ dataSources = DataSourceNames
    /\ registry \in {r \in FlatRegistries : Cardinality(DOMAIN r) <= 1}
    /\ options \in {[o EXCEPT !.mixins = m] :
                        o \in {o \in DefaultOptions : o.dataSource = Undefined /\ o.dataSouce = Undefined},
                        m \in MixinsOptions}

Init == InitInheritance \/ InitWiring \/ InitScripts \/ InitBothBases \/ InitMixins

\* -------------------------------------------------------------- actions
\* line.dataSource(name, {connector: 'memory'})
DataSource(name) ==
    /\ pc = "ready"
    /\ name \notin dataSources
    /\ dataSources' = dataSources \cup {name}
    /\ UNCHANGED <<pc, registry, options, instructions, idx, models, created,
                   lineModels, lineModelsByName, attached, builderMixins, customized,
                   disk, scannedSources, error,
                   modelConfig, settings, configured, resolving, resolved>>

\* variant: another name is the default
NormalizeOptionsDb(o) ==
    [o EXCEPT !.dataSouce = IF Truthy(o.dataSouce) THEN o.dataSouce ELSE "db"]

\* options.dataSouce = options.dataSouce || 'default'
NormalizeOptions(o) ==
    [o EXCEPT !.dataSouce = IF Truthy(o.dataSouce) THEN o.dataSouce ELSE "default"]

\* require(sourceFile): what the module exports.  The file name stands for the
\* kind of its export.
Require(sourceFile) ==
    CASE sourceFile = "function.js" -> "function"
      [] sourceFile = "model.js" -> "model"
      [] OTHER -> "object"

\* typeof export === 'function': a model class is a function as well
TypeofFunction(export) == export \in {"function", "model"}

\* typeof mixin === 'function' || mixin.prototype instanceof BaseClass
IsMixin(export) == TypeofFunction(export) \/ export = "model"

\* defineMixins: the mixins of modelBuilder after the pass over instructions.mixins
RECURSIVE defineMixinsLoop(_, _)
defineMixinsLoop(defined, mixins) ==
    IF mixins = <<>> THEN defined
    ELSE LET obj == Head(mixins)
         IN defineMixinsLoop(IF IsMixin(Require(obj.sourceFile))
                             THEN defined \cup {obj.name} ELSE defined,
                             Tail(mixins))

defineMixins(defined, instructionsMixins) ==
    IF Len(instructionsMixins) = 0 THEN defined
    ELSE defineMixinsLoop(defined, instructionsMixins)

\* the instructions load hands to setupModels: {models: loadModelInstructions(...)};
\* the object has no mixins key, which defineMixins reads as []
SetupInstructions(opts, built) ==
    [models |-> built.instructions, mixins |-> <<>>]

\* load(line, root, options), up to the end of the mixin pass of setupModels
Load ==
    /\ pc = "ready"
    /\ LET opts == NormalizeOptions(options)
           built == buildAllModelInstructions(registry, opts)
           setup == SetupInstructions(opts, built)
       IN /\ options' = opts
          /\ IF built.cyclic
             THEN /\ pc' = "failed"
                  /\ error' = Error("Cyclic dependency", Undefined, Undefined)
                  /\ UNCHANGED <<instructions, builderMixins>>
             ELSE /\ pc' = "defineModels"
                  /\ instructions' = setup.models
                  /\ builderMixins' = defineMixins(builderMixins, setup.mixins)
                  /\ UNCHANGED error
    /\ idx' = 1
    /\ UNCHANGED <<dataSources, registry, models, created, lineModels, lineModelsByName,
                   attached, customized, disk, scannedSources,
                   modelConfig, settings, configured, resolving, resolved>>

\* variant: the export of the script is called whatever it is
customizeAlways(log, sourceFile, model) ==
    IF Truthy(sourceFile) THEN Append(log, model) ELSE log

\* defineModels: if (data.sourceFile) { code = require(...); if (typeof code ===
\* 'function') code(model); }   The result is the log of the calls.
customize(log, sourceFile, model) ==
    IF Truthy(sourceFile) /\ TypeofFunction(Require(sourceFile))
    THEN Append(log, model)
    ELSE log

\* variant: an instruction without a definition gets a new model as well
DefineModelCreating ==
    /\ pc = "defineModels"
    /\ idx <= Len(instructions)
    /\ LET data == instructions[idx]
           made == createModel(models, IF data.definition = UndefinedDefinition
                                       THEN Definition(data.name, Undefined, Undefined)
                                       ELSE data.definition)
       IN IF made.error # NoError
          THEN /\ pc' = "failed"
               /\ error' = made.error
               /\ UNCHANGED <<instructions, idx, models, created, customized>>
          ELSE /\ models' = made.models
               /\ created' = Append(created, data.name)
               /\ customized' = customize(customized, data.sourceFile, data.name)
               /\ instructions' = [instructions EXCEPT ![idx]._model = data.name]
               /\ idx' = idx + 1
               /\ UNCHANGED <<pc, error>>
    /\ UNCHANGED <<dataSources, registry, options, lineModels, lineModelsByName, attached,
                   builderMixins, disk, scannedSources,
                   modelConfig, settings, configured, resolving, resolved>>

\* defineModels: one iteration of instructions.models.forEach
DefineModel ==
    /\ pc = "defineModels"
    /\ idx <= Len(instructions)
    /\ LET data == instructions[idx]
       IN IF data.definition = UndefinedDefinition
          THEN LET got == getModel(models, data.name)
               IN IF got.error # NoError
                  THEN /\ pc' = "failed"
                       /\ error' = got.error
                       /\ UNCHANGED <<instructions, idx, models, created, customized>>
                  ELSE IF ~Truthy(got.model)
                  THEN /\ pc' = "failed"
                       /\ error' = Error("Cannot configure unknown model", data.name, Undefined)
                       /\ UNCHANGED <<instructions, idx, models, created, customized>>
                  ELSE /\ instructions' = [instructions EXCEPT ![idx]._model = got.model]
                       /\ idx' = idx + 1
                       /\ UNCHANGED <<pc, error, models, created, customized>>
          ELSE LET made == createModel(models, data.definition)
               IN IF made.error # NoError
                  THEN /\ pc' = "failed"
                       /\ error' = made.error
                       /\ UNCHANGED <<instructions, idx, models, created, customized>>
                  ELSE /\ models' = made.models
                       /\ created' = Append(created, data.name)
                       /\ customized' = customize(customized, data.sourceFile, data.name)
                       /\ instructions' = [instructions EXCEPT ![idx]._model = data.name]
                       /\ idx' = idx + 1
                       /\ UNCHANGED <<pc, error>>
    /\ UNCHANGED <<dataSources, registry, options, lineModels, lineModelsByName, attached,
                   builderMixins, disk, scannedSources,
                   modelConfig, settings, configured, resolving, resolved>>

\* variant: the model pass returns before it has visited every instruction
DefineModelsDoneEarly ==
    /\ pc = "defineModels"
    /\ pc' = "attach"
    /\ idx' = 1
    /\ UNCHANGED <<dataSources, registry, options, instructions, models, created,
                   lineModels, lineModelsByName, attached, builderMixins, customized,
                   disk, scannedSources, error,
                   modelConfig, settings, configured, resolving, resolved>>

\* setupModels: defineModels has returned, the attach pass starts
DefineModelsDone ==
    /\ pc = "defineModels"
    /\ idx > Len(instructions)
    /\ pc' = "attach"
    /\ idx' = 1
    /\ UNCHANGED <<dataSources, registry, options, instructions, models, created,
                   lineModels, lineModelsByName, attached, builderMixins, customized,
                   disk, scannedSources, error,
                   modelConfig, settings, configured, resolving, resolved>>

\* variant: the lookup of the datasource is not asserted
configureModelNoAssert(ModelCtor, config, lineDataSources) ==
    [dataSource |-> IF config.dataSource \in lineDataSources THEN config.dataSource ELSE Undefined,
     error |-> NoError]

\* configureModel of line.js: the datasource a config resolves to
\* result: [dataSource, error]
configureModel(ModelCtor, config, lineDataSources) ==
    IF Truthy(config.dataSource) /\ config.dataSource \notin lineDataSources
    THEN [dataSource |-> Undefined,
          error |-> Error("is referencing a dataSource that does not exist",
                          ModelCtor, config.dataSource)]
    ELSE [dataSource |-> config.dataSource, error |-> NoError]

\* Registry.prototype.configureModel: ModelCtor.attachTo(config.dataSource)
attachTo(att, ModelCtor, dataSource) ==
    IF Truthy(dataSource)
    THEN [n \in DOMAIN att \cup {ModelCtor} |-> IF n = ModelCtor THEN dataSource ELSE att[n]]
    ELSE att

\* variant: the model is configured but not added to line.models
lineModelNoRegister(app, lineDataSources, Model, config) ==
    LET conf == configureModel(Model, config, lineDataSources)
    IN IF conf.error # NoError
       THEN [app |-> app, error |-> conf.error]
       ELSE [app |-> [app EXCEPT !.attached = attachTo(app.attached, Model, conf.dataSource)],
             error |-> NoError]

\* line.model(Model, config) on the application app = [lineModels, lineModelsByName, attached]
\* result: the application, and the error thrown
lineModel(app, lineDataSources, Model, config) ==
    LET conf == configureModel(Model, config, lineDataSources)
    IN IF conf.error # NoError
       THEN [app |-> app, error |-> conf.error]
       ELSE [app |-> [lineModels |-> Append(app.lineModels, Model),
                      lineModelsByName |-> app.lineModelsByName \cup {Model},
                      attached |-> attachTo(app.attached, Model, conf.dataSource)],
             error |-> NoError]

\* setupModels: one iteration of the attach pass
AttachModel ==
    /\ pc = "attach"
    /\ idx <= Len(instructions)
    /\ LET data == instructions[idx]
       IN IF ~TruthyConfig(data.config)
          THEN /\ idx' = idx + 1
               /\ UNCHANGED <<pc, error, lineModels, lineModelsByName, attached>>
          ELSE LET r == lineModel([lineModels |-> lineModels,
                                   lineModelsByName |-> lineModelsByName,
                                   attached |-> attached],
                                  dataSources, data._model, data.config)
               IN /\ lineModels' = r.app.lineModels
                  /\ lineModelsByName' = r.app.lineModelsByName
                  /\ attached' = r.app.attached
                  /\ error' = r.error
                  /\ IF r.error # NoError
                     THEN pc' = "failed" /\ UNCHANGED idx
                     ELSE idx' = idx + 1 /\ UNCHANGED pc
    /\ UNCHANGED <<dataSources, registry, options, instructions, models, created,
                   builderMixins, customized, disk, scannedSources,
                   modelConfig, settings, configured, resolving, resolved>>

\* setupModels returns
SetupModelsDone ==
    /\ pc = "attach"
    /\ idx > Len(instructions)
    /\ pc' = "done"
    /\ UNCHANGED <<dataSources, registry, options, instructions, idx, models, created,
                   lineModels, lineModelsByName, attached, builderMixins, customized,
                   disk, scannedSources, error,
                   modelConfig, settings, configured, resolving, resolved>>

Next ==
    \/ \E name \in DataSourceNames : DataSource(name)
    \/ Load
    \/ DefineModel
    \/ DefineModelsDone
    \/ AttachModel
    \/ SetupModelsDone

Spec == Init /\ [][Next]_vars

\* ------------------------------------------------------------- discovery
\* A directory entry is [base, ext, stat, content]: the file name without its
\* extension, the extension, what fs.statSync says of it ("file", "dir", or
\* "dangling" when the call throws), and for a .json file what require makes of
\* it: "malformed", or the name its definition sets (undefined when none).
\* contentBase is the base its definition sets.
File(base, ext, stat, content) ==
    [base |-> base, ext |-> ext, stat |-> stat, content |-> content, contentBase |-> Undefined]

\* a definition file {"name": content, "base": contentBase}
SchemaFile(base, content, contentBase) ==
    [File(base, ".json", "file", content) EXCEPT !.contentBase = contentBase]

UndefinedFile == File(Undefined, Undefined, Undefined, Undefined)

\* path.extname, path.basename(filepath, ext)
extname(f) == f.ext
basename(f) == f.base

\* the path of a file, as the string the registry keeps
FileName(f) ==
    CASE f.base = "a" /\ f.ext = ".js" -> "a.js"
      [] f.base = "b" /\ f.ext = ".js" -> "b.js"
      [] f.base = "a" /\ f.ext = ".json" -> "a.json"
      [] f.base = "a" /\ f.ext = ".txt" -> "a.txt"
      [] f.base = "b" /\ f.ext = ".json" -> "b.json"
      [] f.base = "-" /\ f.ext = ".json" -> "-.json"
      [] OTHER -> "file"

\* getExcludedExtensions, and the keys of require.extensions
ExcludedExtensions == {".json", ".node"}
RequireExtensions == {".js", ".json", ".node"}

isPreferredExtension(f) ==
    extname(f) \in RequireExtensions /\ extname(f) \notin ExcludedExtensions

\* tryReadDir: an unreadable directory lists as []
tryReadDir(dir) == IF dir.exists /\ dir.readable THEN dir.files ELSE <<>>

\* variant: onlyScriptsExportingFunction is not set, any extension will do
IsScriptForAnyExtension(f, base) ==
    /\ f.stat = "file"
    /\ extname(f) \notin ExcludedExtensions
    /\ basename(f) = base

\* fixFileExtension: the test a listed file passes to be pushed to results,
\* called with onlyScriptsExportingFunction
IsScriptFor(f, base) ==
    /\ f.stat = "file"
    /\ extname(f) \notin ExcludedExtensions
    /\ basename(f) = base
    /\ extname(f) \in RequireExtensions

\* fixFileExtension, files.forEach.  result: [sourceFile, error]
RECURSIVE fixFileExtensionLoop(_, _, _)
fixFileExtensionLoop(files, base, results) ==
    IF files = <<>>
    THEN [sourceFile |-> IF Len(results) > 0 THEN results[1] ELSE Undefined, error |-> NoError]
    ELSE LET f == Head(files)
         IN IF f.stat = "dangling"
            THEN [sourceFile |-> Undefined, error |-> Error("ENOENT", FileName(f), Undefined)]
            ELSE IF IsScriptFor(f, base)
                 THEN fixFileExtensionLoop(Tail(files), base, Append(results, FileName(f)))
                 ELSE fixFileExtensionLoop(Tail(files), base, results)

fixFileExtension(filepath, files) ==
    IF isPreferredExtension(filepath)
    THEN [sourceFile |-> FileName(filepath), error |-> NoError]
    ELSE fixFileExtensionLoop(files, basename(filepath), <<>>)

\* _.capitalize(_.camelCase(basename))
DeriveName(base) ==
    CASE base = "a" -> "A"
      [] base = "b" -> "B"
      [] base = "c" -> "C"
      [] base = "_c" -> "C"
      [] OTHER -> Undefined

\* result: [entry, error]
loadModelDefinition(jsonFile, allFiles) ==
    LET none == [definition |-> UndefinedDefinition, sourceFile |-> Undefined]
    IN IF jsonFile.stat # "file"
       THEN [entry |-> none, error |-> Error("Cannot find module", FileName(jsonFile), Undefined)]
       ELSE IF jsonFile.content = "malformed"
       THEN [entry |-> none, error |-> Error("SyntaxError", FileName(jsonFile), Undefined)]
       ELSE LET name == IF Truthy(jsonFile.content) THEN jsonFile.content
                        ELSE DeriveName(basename(jsonFile))
                fixed == fixFileExtension(jsonFile, allFiles)
            IN [entry |-> [definition |-> Definition(name, jsonFile.contentBase, Undefined),
                           sourceFile |-> fixed.sourceFile],
                error |-> fixed.error]

\* variant: an entry of the registry is never overwritten
PutIfAbsent(reg, modelName, entry) ==
    [n \in DOMAIN reg \cup {modelName} |-> IF n \in DOMAIN reg THEN reg[n] ELSE entry]

\* registry[modelName] = entry
Put(reg, modelName, entry) ==
    [n \in DOMAIN reg \cup {modelName} |-> IF n = modelName THEN entry ELSE reg[n]]

\* variant: every .json file is a definition file
IsDefinitionFileAnyName(f) == extname(f) = ".json"

\* f[0] !== '_' && path.extname(f) === '.json'
IsDefinitionFile(f) == f.base \notin {"_c"} /\ extname(f) = ".json"

\* findModelDefinitions, the forEach over the .json files of one source
\* result: [registry, error]
RECURSIVE findModelDefinitionsLoop(_, _, _)
findModelDefinitionsLoop(reg, jsonFiles, files) ==
    IF jsonFiles = <<>> THEN [registry |-> reg, error |-> NoError]
    ELSE LET loaded == loadModelDefinition(Head(jsonFiles), files)
             modelName == loaded.entry.definition.name
         IN IF loaded.error # NoError THEN [registry |-> reg, error |-> loaded.error]
            ELSE IF loaded.entry.definition = UndefinedDefinition \/ ~Truthy(modelName)
            THEN findModelDefinitionsLoop(reg, Tail(jsonFiles), files)
            ELSE findModelDefinitionsLoop(Put(reg, modelName, loaded.entry), Tail(jsonFiles), files)

\* verifyModelDefinitions, modelDefinitions.forEach.  result: [registry, error]
RECURSIVE verifyModelDefinitionsLoop(_, _, _)
verifyModelDefinitionsLoop(reg, modelDefinitions, files) ==
    IF modelDefinitions = <<>> THEN [registry |-> reg, error |-> NoError]
    ELSE LET definition == Head(modelDefinitions)
             fixed == IF definition.sourceFile # UndefinedFile
                      THEN fixFileExtension(definition.sourceFile, files)
                      ELSE [sourceFile |-> Undefined, error |-> NoError]
             modelName == definition.definition.name
         IN IF fixed.error # NoError THEN [registry |-> reg, error |-> fixed.error]
            ELSE IF ~Truthy(modelName)
            THEN verifyModelDefinitionsLoop(reg, Tail(modelDefinitions), files)
            ELSE verifyModelDefinitionsLoop(
                     Put(reg, modelName, [definition |-> definition.definition,
                                          sourceFile |-> fixed.sourceFile]),
                     Tail(modelDefinitions), files)

\* variant: the list of the caller is never used
UseModelDefinitionsNever(modelDefinitions) == FALSE

\* verifyModelDefinitions returns a registry: !(!modelDefinitions || length < 1)
UseModelDefinitions(modelDefinitions) == Len(modelDefinitions) >= 1

\* buildAllModelInstructions: verifyModelDefinitions(rootDir, modelDefinitions).
\* The source files of the list are files of the directory ./models.
VerifyModelDefinitions ==
    /\ pc = "scan"
    /\ idx = 0
    /\ UseModelDefinitions(options.modelDefinitions)
    /\ LET verified == verifyModelDefinitionsLoop(<<>>, options.modelDefinitions,
                                                  tryReadDir(disk["./models"]))
       IN IF verified.error # NoError
          THEN pc' = "failed" /\ error' = verified.error /\ UNCHANGED registry
          ELSE pc' = "ready" /\ registry' = verified.registry /\ UNCHANGED error
    /\ UNCHANGED <<dataSources, options, instructions, idx, models, created, lineModels,
                   lineModelsByName, attached, builderMixins, customized, disk, scannedSources,
                   modelConfig, settings, configured, resolving, resolved>>

\* buildAllModelInstructions: verifyModelDefinitions returned undefined, so
\* findModelDefinitions starts with an empty registry
FindModelDefinitions ==
    /\ pc = "scan"
    /\ idx = 0
    /\ ~UseModelDefinitions(options.modelDefinitions)
    /\ registry' = <<>>
    /\ idx' = 1
    /\ UNCHANGED <<pc, dataSources, options, instructions, models, created, lineModels,
                   lineModelsByName, attached, builderMixins, customized, disk,
                   scannedSources, error,
                   modelConfig, settings, configured, resolving, resolved>>

\* findModelDefinitions: one iteration of sources.forEach
ScanSource ==
    /\ pc = "scan"
    /\ idx >= 1 /\ idx <= Len(options.sources)
    /\ LET src == options.sources[idx]
           srcDir == disk[src]
       IN IF ~srcDir.exists
          THEN /\ idx' = idx + 1
               /\ UNCHANGED <<pc, registry, scannedSources, error>>
          ELSE LET files == tryReadDir(srcDir)
                   found == findModelDefinitionsLoop(registry,
                                SelectSeq(files, IsDefinitionFile), files)
               IN /\ scannedSources' = Append(scannedSources, src)
                  /\ registry' = found.registry
                  /\ error' = found.error
                  /\ IF found.error # NoError
                     THEN pc' = "failed" /\ UNCHANGED idx
                     ELSE idx' = idx + 1 /\ UNCHANGED pc
    /\ UNCHANGED <<dataSources, options, instructions, models, created, lineModels,
                   lineModelsByName, attached, builderMixins, customized, disk,
                   modelConfig, settings, configured, resolving, resolved>>

\* findModelDefinitions returns the registry
FindModelDefinitionsDone ==
    /\ pc = "scan"
    /\ idx > Len(options.sources)
    /\ pc' = "ready"
    /\ idx' = 0
    /\ UNCHANGED <<dataSources, registry, options, instructions, models, created, lineModels,
                   lineModelsByName, attached, builderMixins, customized, disk,
                   scannedSources, error,
                   modelConfig, settings, configured, resolving, resolved>>

\* the entries a directory can hold, in the order readdir lists them
DirEntries ==
    <<File("_c", ".json", "file", Undefined),
      File("a", ".js", "dangling", Undefined),
      File("a", ".js", "dir", Undefined),
      File("a", ".js", "file", Undefined),
      File("a", ".json", "dangling", Undefined),
      File("a", ".json", "file", "malformed"),
      File("a", ".json", "file", Undefined),
      File("a", ".json", "file", "B"),
      File("a", ".txt", "file", Undefined),
      File("b", ".json", "file", "malformed"),
      File("b", ".json", "file", Undefined),
      File("-", ".json", "file", Undefined)>>

\* the entries picked by a set of positions, in listing order
Listing(S) ==
    [i \in 1..Cardinality(S) |->
        DirEntries[CHOOSE k \in S : Cardinality({m \in S : m < k}) = i - 1]]

\* the listings of at most MaxFiles entries with different names
Listings ==
    {Listing(S) : S \in {S \in SUBSET (1..Len(DirEntries)) :
        /\ Cardinality(S) <= MaxFiles
        /\ \A k, m \in S : k # m =>
              FileName(DirEntries[k]) # FileName(DirEntries[m])}}

NoDir == [exists |-> FALSE, readable |-> FALSE, files |-> <<>>]
UnreadableDir == [exists |-> TRUE, readable |-> FALSE, files |-> <<>>]
Dir(files) == [exists |-> TRUE, readable |-> TRUE, files |-> files]

\* a second source directory: absent, unreadable, holding c.json, or holding
\* another definition of A with a script of its own
MoreDirs ==
    {NoDir, UnreadableDir, Dir(<<File("c", ".json", "file", Undefined)>>),
     Dir(<<File("b", ".js", "file", Undefined), SchemaFile("b", "A", "PersistedModel")>>)}

SourcesOptions == {<<"./models">>, <<"./more", "./models">>, <<"./models", "./more">>}

\* the entries of a modelDefinitions list: {definition, sourceFile}
ListedDefinitions ==
    [definition : {Definition(n, Undefined, Undefined) : n \in {Undefined, "A", "B"}},
     sourceFile : {UndefinedFile, File("a", ".js", "file", Undefined),
                   File("a", ".json", "file", Undefined)}]

ModelDefinitionsOptions == UNION {[1..n -> ListedDefinitions] : n \in 1..MaxListed}

ScanOptions(sources, modelDefinitions) ==
    [dataSource |-> Undefined, dataSouce |-> Undefined, models |-> NoModels, mixins |-> <<>>,
     sources |-> sources, modelDefinitions |-> modelDefinitions]

\* load is called: nothing has been scanned
InitLoad ==
    /\ pc = "scan"
    /\ NoConfigureCall
    /\ NoResolveCall
    /\ scannedSources = <<>>
    /\ registry = <<>>
    /\ dataSources = {}
    /\ instructions = <<>>
    /\ idx = 0
    /\ models = [n \in BuiltinModels |-> [base |-> IF n = "Model" THEN Undefined ELSE "Model"]]
    /\ created = <<>>
    /\ lineModels = <<>>
    /\ lineModelsByName = {}
    /\ attached = <<>>
    /\ builderMixins = {}
    /\ customized = <<>>
    /\ error = NoError

\* every source directory, scanned because the caller lists no definitions
InitScanDisk ==
    /\ InitLoad
    /\ \E dir \in {NoDir, UnreadableDir} \cup {Dir(l) : l \in Listings}, more \in MoreDirs :
          disk = [d \in {"./models", "./more"} |-> IF d = "./models" THEN dir ELSE more]
    /\ \E sources \in SourcesOptions : options = ScanOptions(sources, <<>>)

\* every modelDefinitions list, over a project whose ./models holds definitions
InitScanList ==
    /\ InitLoad
    /\ \E dir \in {NoDir,
                   Dir(<<File("a", ".js", "file", Undefined), File("a", ".json", "file", "B")>>),
                   Dir(<<File("a", ".js", "dangling", Undefined)>>)} :
          disk = [d \in {"./models", "./more"} |-> IF d = "./models" THEN dir ELSE NoDir]
    /\ \E list \in ModelDefinitionsOptions : options = ScanOptions(DefaultSources, list)

InitScan == InitScanDisk \/ InitScanList

NextScan ==
    \/ VerifyModelDefinitions
    \/ FindModelDefinitions
    \/ ScanSource
    \/ FindModelDefinitionsDone

\* the discovery of the definitions, from the call of load to the registry
SpecScan == InitScan /\ [][NextScan]_vars

\* ------------------------------------------------ registry.configureModel
\* A JavaScript value of a config or settings slot: undefined, null, a string,
\* an object with the keys of `map`, or an array with the elements of `list`.
UndefinedValue == [type |-> "undefined", map |-> <<>>, list |-> <<>>, raw |-> Undefined]
NullValue == [type |-> "null", map |-> <<>>, list |-> <<>>, raw |-> Null]
StringValue(s) == [type |-> "string", map |-> <<>>, list |-> <<>>, raw |-> s]
ObjectValue(m) == [type |-> "object", map |-> m, list |-> <<>>, raw |-> Undefined]
ArrayValue(l) == [type |-> "array", map |-> <<>>, list |-> l, raw |-> Undefined]

\* typeof v === 'object' && v !== null
IsObject(v) == v.type \in {"object", "array"}

\* config.dataSource: undefined, null, false, a DataSource, or something else
DataSourceValue(type, name) == [type |-> type, name |-> name]
TruthyDataSource(ds) == ds.type \notin {"undefined", "null", "false"}

\* variant: anything truthy passes for a datasource
InstanceOfAnything(ds) == TRUE

\* config.dataSource instanceof DataSource
InstanceOfDataSource(ds) == ds.type = "DataSource"

\* ModelCtor.settings: the relations, the acls, and the other settings by key
Settings(relations, acls, own) == [relations |-> relations, acls |-> acls, own |-> own]

Acl(property, accessType, principalType, principalId, permission) ==
    [property |-> property, accessType |-> accessType, principalType |-> principalType,
     principalId |-> principalId, permission |-> permission]

\* variant: the relation of the config replaces the existing relation
extendReplacing(origin, add) == add

\* require('util')._extend(origin, add)
extend(origin, add) ==
    [k \in DOMAIN origin \cup DOMAIN add |-> IF k \in DOMAIN add THEN add[k] ELSE origin[k]]

\* variant: two entries match when they name the same property
MatchesACLByProperty(a, b) == a.property = b.property

\* addACL: the test of the loop
MatchesACL(a, b) ==
    /\ a.property = b.property
    /\ a.accessType = b.accessType
    /\ a.principalType = b.principalType
    /\ a.principalId = b.principalId

RECURSIVE addACLLoop(_, _, _)
addACLLoop(acls, acl, i) ==
    IF i > Len(acls) THEN Append(acls, acl)
    ELSE IF MatchesACL(acls[i], acl) THEN [acls EXCEPT ![i] = acl]
    ELSE addACLLoop(acls, acl, i + 1)

\* variant: the entry is pushed whether or not an entry matches
addACLPush(acls, acl) == Append(acls, acl)

addACL(acls, acl) == addACLLoop(acls, acl, 1)

\* configureModel, "Relations"
configureRelations(modelSettings, conf) ==
    IF IsObject(conf.relations)
    THEN LET relations == IF IsObject(modelSettings.relations)
                          THEN modelSettings.relations.map ELSE <<>>
             added == conf.relations.map
         IN [modelSettings EXCEPT !.relations =
                ObjectValue([key \in DOMAIN relations \cup DOMAIN added |->
                    IF key \in DOMAIN added
                    THEN extend(IF key \in DOMAIN relations THEN relations[key] ELSE <<>>,
                                added[key])
                    ELSE relations[key]])]
    ELSE modelSettings

\* configureModel, "ACLs": the list after each call of addACL, the list the
\* forEach starts with first
RECURSIVE configureACLsLoop(_, _)
configureACLsLoop(steps, configAcls) ==
    IF configAcls = <<>> THEN steps
    ELSE configureACLsLoop(Append(steps, addACL(steps[Len(steps)], Head(configAcls))),
                           Tail(configAcls))

configureACLsSteps(modelSettings, conf) ==
    IF conf.acls.type = "array"
    THEN configureACLsLoop(<<IF modelSettings.acls.type = "array"
                             THEN modelSettings.acls.list ELSE <<>> >>, conf.acls.list)
    ELSE <<>>

configureACLs(modelSettings, conf) ==
    LET steps == configureACLsSteps(modelSettings, conf)
    IN IF conf.acls.type = "array"
       THEN [modelSettings EXCEPT !.acls = ArrayValue(steps[Len(steps)])]
       ELSE modelSettings

\* the keys every object literal inherits from Object.prototype
ObjectPrototypeKeys ==
    {"constructor", "toString", "toLocaleString", "valueOf", "hasOwnProperty",
     "isPrototypeOf", "propertyIsEnumerable", "__proto__"}

\* var excludedProperties = {base: true, 'super': true, relations: true, ...}
ExcludedProperties == {"base", "super", "relations", "acls", "dataSource"}

\* p in excludedProperties
InExcludedProperties(p) == p \in ExcludedProperties \cup ObjectPrototypeKeys

\* settings[p] = value, and settings[p]
SetSetting(modelSettings, p, value) ==
    CASE p = "relations" -> [modelSettings EXCEPT !.relations = StringValue(value)]
      [] p = "acls" -> [modelSettings EXCEPT !.acls = StringValue(value)]
      [] OTHER -> [modelSettings EXCEPT !.own =
                      [k \in DOMAIN modelSettings.own \cup {p} |->
                          IF k = p THEN value ELSE modelSettings.own[k]]]

GetSetting(modelSettings, p) ==
    CASE p = "relations" -> modelSettings.relations
      [] p = "acls" -> modelSettings.acls
      [] OTHER -> IF p \in DOMAIN modelSettings.own
                  THEN StringValue(modelSettings.own[p]) ELSE UndefinedValue

\* configureModel, "Settings": for (var p in config.options)
RECURSIVE configureSettingsLoop(_, _, _)
configureSettingsLoop(modelSettings, configOptions, keys) ==
    IF keys = {} THEN modelSettings
    ELSE LET p == CHOOSE k \in keys : TRUE
         IN configureSettingsLoop(IF ~InExcludedProperties(p)
                                  THEN SetSetting(modelSettings, p, configOptions[p])
                                  ELSE modelSettings,
                                  configOptions, keys \ {p})

configureSettings(modelSettings, conf) ==
    IF IsObject(conf.options)
    THEN configureSettingsLoop(modelSettings, conf.options.map, DOMAIN conf.options.map)
    ELSE modelSettings

\* variant: the datasource is attached before the configuration is updated
RegistryConfigureModelAttachFirst(modelSettings, conf) ==
    LET attach == TruthyDataSource(conf.dataSource) /\ InstanceOfDataSource(conf.dataSource)
        updated == configureSettings(configureACLs(configureRelations(modelSettings, conf),
                                                   conf), conf)
    IN [settings |-> updated,
        aclSteps |-> configureACLsSteps(modelSettings, conf),
        dataSource |-> IF attach THEN conf.dataSource.name ELSE Undefined,
        observed |-> IF attach THEN <<modelSettings>> ELSE <<>>,
        error |-> IF TruthyDataSource(conf.dataSource) /\ ~attach
                  THEN Error("config.dataSource must be an instance of DataSource",
                             "A", Undefined)
                  ELSE NoError]

\* Registry.prototype.configureModel(ModelCtor, config), on ModelCtor.settings.
\* result: the settings, the acls after each addACL, the datasource attachTo
\* was called with and the settings it saw, and the error thrown
RegistryConfigureModel(modelSettings, conf) ==
    LET withRelations == configureRelations(modelSettings, conf)
        withAcls == configureACLs(withRelations, conf)
        updated == configureSettings(withAcls, conf)
        attach == TruthyDataSource(conf.dataSource) /\ InstanceOfDataSource(conf.dataSource)
    IN [settings |-> updated,
        aclSteps |-> configureACLsSteps(withRelations, conf),
        dataSource |-> IF attach THEN conf.dataSource.name ELSE Undefined,
        observed |-> IF attach THEN <<updated>> ELSE <<>>,
        error |-> IF TruthyDataSource(conf.dataSource) /\ ~attach
                  THEN Error("config.dataSource must be an instance of DataSource",
                             "A", Undefined)
                  ELSE NoError]

\* one call registry.configureModel(A, modelConfig)
ConfigureModel ==
    /\ pc = "configure"
    /\ Len(configured) < MaxCalls
    /\ LET r == RegistryConfigureModel(settings, modelConfig)
       IN /\ settings' = r.settings
          /\ attached' = attachTo(attached, "A", r.dataSource)
          /\ error' = r.error
          /\ configured' = Append(configured,
                [before |-> settings, after |-> r.settings, aclSteps |-> r.aclSteps,
                 dataSource |-> r.dataSource, observed |-> r.observed, error |-> r.error])
    /\ UNCHANGED <<pc, dataSources, registry, options, instructions, idx, models, created,
                   lineModels, lineModelsByName, builderMixins, customized, disk,
                   scannedSources, modelConfig, resolving, resolved>>

ModelConfig(relations, acls, opts, dataSource) ==
    [relations |-> relations, acls |-> acls, options |-> opts, dataSource |-> dataSource]

\* the access control entries: one rule and the four rules that differ from it
\* in one field of the key, each allowing or denying
Acls ==
    {Acl(k[1], k[2], k[3], k[4], perm) :
        k \in {<<"*", "*", "ROLE", "$everyone">>, <<"find", "*", "ROLE", "$everyone">>,
               <<"*", "READ", "ROLE", "$everyone">>, <<"*", "*", "USER", "$everyone">>,
               <<"*", "*", "ROLE", "$owner">>},
        perm \in {"ALLOW", "DENY"}}

AclLists == UNION {[1..n -> Acls] : n \in 0..MaxAcls}

\* the entry of a role for a property, any access type
Rule(property, principalId, permission) == Acl(property, "*", "ROLE", principalId, permission)

\* the acls a model has before the call, some with two entries of one key
ExistingAcls ==
    {UndefinedValue, ArrayValue(<<>>),
     ArrayValue(<<Rule("*", "$everyone", "ALLOW")>>),
     ArrayValue(<<Rule("find", "$everyone", "ALLOW"), Rule("*", "$everyone", "ALLOW")>>),
     ArrayValue(<<Rule("*", "$everyone", "ALLOW"), Rule("*", "$everyone", "DENY")>>),
     ArrayValue(<<Rule("*", "$everyone", "DENY"), Rule("*", "$owner", "ALLOW"),
                  Rule("*", "$everyone", "ALLOW")>>)}

RelationObjects ==
    {("type" :> "hasMany"), ("type" :> "belongsTo") @@ ("model" :> "User"),
     ("model" :> "Order")}
\* the relations objects over some of the keys
RelationMaps(keys) == UNION {[K -> RelationObjects] : K \in SUBSET keys}

OptionKeys ==
    {"base", "super", "relations", "acls", "dataSource", "strict", "plural", "constructor"}
OptionMaps ==
    UNION {[K -> {"on", "off"}] : K \in {K \in SUBSET OptionKeys : Cardinality(K) <= MaxOptions}}

ExistingSettings ==
    {Settings(UndefinedValue, UndefinedValue, <<>>),
     Settings(UndefinedValue, UndefinedValue, ("base" :> "PersistedModel") @@ ("strict" :> "off")),
     Settings(ObjectValue("orders" :> ("type" :> "hasMany")),
              ArrayValue(<<Rule("*", "$everyone", "ALLOW")>>),
              ("base" :> "PersistedModel") @@ ("super" :> "PersistedModel")
              @@ ("dataSource" :> "db") @@ ("plural" :> "on"))}

DataSourceValues ==
    {DataSourceValue("undefined", Undefined), DataSourceValue("null", Null),
     DataSourceValue("false", Undefined), DataSourceValue("DataSource", "db"),
     DataSourceValue("DataSource", "default"), DataSourceValue("string", "db"),
     DataSourceValue("object", Undefined)}

\* a model A has been created; configureModel has not been called on it
InitConfigure ==
    /\ pc = "configure"
    /\ NoResolveCall
    /\ configured = <<>>
    /\ disk = <<>>
    /\ scannedSources = <<>>
    /\ registry = <<>>
    /\ dataSources = DataSourceNames
    /\ options = ScanOptions(DefaultSources, <<>>)
    /\ instructions = <<>>
    /\ idx = 0
    /\ models = [n \in BuiltinModels \cup {"A"} |->
                    [base |-> IF n = "Model" THEN Undefined
                              ELSE IF n = "A" THEN "PersistedModel" ELSE "Model"]]
    /\ created = <<>>
    /\ lineModels = <<>>
    /\ lineModelsByName = {}
    /\ attached = <<>>
    /\ builderMixins = {}
    /\ customized = <<>>
    /\ error = NoError

\* the calls followed: every acls value of a config on every acls list of the
\* model, every relations value on every relations object, every options
\* value, and every dataSource value with and without something to merge
InitConfigureCalls ==
    /\ InitConfigure
    /\ \/ /\ \E acls \in {UndefinedValue, NullValue, StringValue("x")}
                          \cup {ArrayValue(l) : l \in AclLists} :
                 modelConfig = ModelConfig(UndefinedValue, acls, UndefinedValue,
                                           DataSourceValue("undefined", Undefined))
          /\ \E acls \in ExistingAcls : settings = Settings(UndefinedValue, acls, <<>>)
       \/ /\ \E relations \in {UndefinedValue, NullValue, StringValue("x")}
                               \cup {ObjectValue(m) : m \in RelationMaps({"orders", "customer"})} :
                 modelConfig = ModelConfig(relations, UndefinedValue, UndefinedValue,
                                           DataSourceValue("undefined", Undefined))
          /\ \E relations \in {UndefinedValue}
                               \cup {ObjectValue(m) : m \in RelationMaps({"orders", "owner"})} :
                 settings = Settings(relations, UndefinedValue, <<>>)
       \/ /\ \E opts \in {UndefinedValue, NullValue, StringValue("x")}
                          \cup {ObjectValue(m) : m \in OptionMaps} :
                 modelConfig = ModelConfig(UndefinedValue, UndefinedValue, opts,
                                           DataSourceValue("undefined", Undefined))
          /\ settings \in ExistingSettings
       \/ /\ \E ds \in DataSourceValues :
                 modelConfig \in
                     {ModelConfig(UndefinedValue, UndefinedValue, UndefinedValue, ds),
                      ModelConfig(ObjectValue("owner" :> ("type" :> "belongsTo")),
                                  ArrayValue(<<Rule("*", "$everyone", "DENY"),
                                               Rule("*", "$owner", "ALLOW")>>),
                                  ObjectValue(("strict" :> "on") @@ ("base" :> "on")), ds)}
          /\ settings \in ExistingSettings

NextConfigure == ConfigureModel

\* calls of registry.configureModel with one config on one model
SpecConfigure == InitConfigureCalls /\ [][NextConfigure]_vars

\* ------------------------------------------------------ tryResolveAppPath
\* A call is [kind, options, candidate, moduleDirs].  kind is how relativePath
\* starts: "absolute" ('/'), "dot" ('./'), "dotdot" ('..') or "bare".  options
\* is resolveOptions.  candidate is what the file system holds at the path the
\* expression names from the root: "exists", "module" (nothing is there, but
\* require.resolve finds a file for it) or "none".  moduleDirs is the same for
\* path.join(candidateDir, relativePath), one entry per directory of
\* Module.globalPaths.concat(Module._nodeModulePaths(rootDir)).
ResolveCall(kind, resolveOptions, candidate, moduleDirs) ==
    [kind |-> kind, options |-> resolveOptions, candidate |-> candidate,
     moduleDirs |-> moduleDirs]

\* resolveOptions: not given, or {strict, fullResolve}
ResolveOptions(strict, fullResolve) ==
    [present |-> TRUE, strict |-> strict, fullResolve |-> fullResolve]
NoResolveOptions == [present |-> FALSE, strict |-> Undefined, fullResolve |-> Undefined]

\* what the call returns: undefined, the candidate, or the match of the
\* module directory `dir`; form is "path" for the path as asked for and
\* "resolved" for the file require.resolve made of it
Resolved(where, dir, form) == [where |-> where, dir |-> dir, form |-> form]
UndefinedPath == Resolved("undefined", 0, Undefined)

\* variant: the module directories are searched for every expression
tryResolveAppPathAlwaysSearching(call) ==
    LET found == SelectSeq([i \in 1..Len(call.moduleDirs) |->
                               [dir |-> i, state |-> call.moduleDirs[i]]],
                           LAMBDA c : c.state # "none")
    IN IF call.candidate = "exists" THEN Resolved("candidate", 0, "path")
       ELSE IF call.candidate = "module" THEN Resolved("candidate", 0, "resolved")
       ELSE IF Len(found) > 0 THEN Resolved("moduleDir", found[1].dir, "path")
       ELSE UndefinedPath

tryResolveAppPath(call) ==
    LET resolveOptions == IF call.options.present THEN call.options
                          ELSE ResolveOptions("true", Undefined)
        explicit == call.kind \in {"absolute", "dot", "dotdot"}
        isModuleRelative == ~explicit /\ resolveOptions.strict # "true"
        fullPath == explicit \/ isModuleRelative
        \* modulePaths.map(...): the directories with what each candidate is
        candidates == [i \in 1..Len(call.moduleDirs) |->
                          [dir |-> i, state |-> call.moduleDirs[i],
                           unresolvedPath |-> call.moduleDirs[i] = "module"]]
        \* .filter(fs.existsSync)
        existing == SelectSeq(candidates, LAMBDA c : c.state # "none")
    IN IF fullPath /\ call.candidate = "exists" THEN Resolved("candidate", 0, "path")
       ELSE IF fullPath /\ call.candidate = "module" THEN Resolved("candidate", 0, "resolved")
       ELSE IF fullPath /\ ~isModuleRelative THEN UndefinedPath
       ELSE IF Len(existing) > 0
       THEN IF existing[1].unresolvedPath /\ resolveOptions.fullResolve = "false"
            THEN Resolved("moduleDir", existing[1].dir, "path")
            ELSE Resolved("moduleDir", existing[1].dir,
                          IF existing[1].unresolvedPath THEN "resolved" ELSE "path")
       ELSE UndefinedPath

\* one call tryResolveAppPath(rootDir, relativePath, resolveOptions)
Resolve ==
    /\ pc = "resolve"
    /\ pc' = "resolved"
    /\ resolved' = tryResolveAppPath(resolving)
    /\ UNCHANGED <<dataSources, registry, options, instructions, idx, models, created,
                   lineModels, lineModelsByName, attached, builderMixins, customized, disk,
                   scannedSources, modelConfig, settings, configured, resolving, error>>

\* every expression, every resolveOptions, every state of the candidate and of
\* at most MaxModuleDirs module directories
InitResolve ==
    /\ pc = "resolve"
    /\ NoConfigureCall
    /\ resolved = Undefined
    /\ \E kind \in {"absolute", "dot", "dotdot", "bare"},
          resolveOptions \in {NoResolveOptions}
              \cup {ResolveOptions(s, f) : s \in {"true", "false", Undefined},
                                           f \in {"true", "false", Undefined}},
          candidate \in {"exists", "module", "none"},
          moduleDirs \in UNION {[1..n -> {"exists", "module", "none"}] : n \in 0..MaxModuleDirs} :
          resolving = ResolveCall(kind, resolveOptions, candidate, moduleDirs)
    /\ disk = <<>>
    /\ scannedSources = <<>>
    /\ registry = <<>>
    /\ dataSources = {}
    /\ options = ScanOptions(DefaultSources, <<>>)
    /\ instructions = <<>>
    /\ idx = 0
    /\ models = [n \in BuiltinModels |-> [base |-> IF n = "Model" THEN Undefined ELSE "Model"]]
    /\ created = <<>>
    /\ lineModels = <<>>
    /\ lineModelsByName = {}
    /\ attached = <<>>
    /\ builderMixins = {}
    /\ customized = <<>>
    /\ error = NoError

NextResolve == Resolve

\* calls of the path resolver
SpecResolve == InitResolve /\ [][NextResolve]_vars

\* ---------------------------------------------- notions the claims use
InstructionNames == {instructions[i].name : i \in 1..Len(instructions)}

\* the base a definition of the registry names
BaseOf(name) ==
    IF name \in DOMAIN registry THEN getBaseModelName(registry[name].definition) ELSE Undefined

\* the k-th base above a name, following locally defined models only
RECURSIVE Ancestor(_, _)
Ancestor(name, k) == IF k = 0 THEN name ELSE BaseOf(Ancestor(name, k - 1))

\* the names the load call declares: the keys of the models map, or else all definitions
DeclaredNames == IF options.models.present THEN DOMAIN options.models.map ELSE DOMAIN registry

\* the declared names and every locally defined base above them
NamesToBuild ==
    DeclaredNames \cup
    {n \in DOMAIN registry : \E d \in DeclaredNames : \E k \in 1..MaxModels : Ancestor(d, k) = n}

OnCycle(name) == name \in DOMAIN registry /\ \E k \in 1..MaxModels : Ancestor(name, k) = name

\* the instruction builder has returned a list
Built == pc \in {"defineModels", "attach", "done"} \/ (pc = "failed" /\ error.message # "Cyclic dependency")

\* ----------------------------------------------------------------- C1
\* C1: whenever the definition of an instruction names a locally defined model
\* as its base, the base's instruction is earlier in the list the instruction
\* builder returned, and the base was created before the derived model.
C1_BaseBeforeDerived ==
    /\ \A j \in 1..Len(instructions) :
          LET b == getBaseModelName(instructions[j].definition)
          IN b \in DOMAIN registry => \E i \in 1..(j - 1) : instructions[i].name = b
    /\ \A j \in 1..Len(created) :
          BaseOf(created[j]) \in DOMAIN registry => \E i \in 1..(j - 1) : created[i] = BaseOf(created[j])

\* a chain of MaxModels - 1 base references, each derived model discovered
\* before its base, has been built and created base first
C1_Witness ==
    /\ pc = "done"
    /\ ~options.models.present
    /\ DOMAIN registry = Names
    /\ \A i \in 1..(MaxModels - 1) : BaseOf(NameSeq[i]) = NameSeq[i + 1]
    /\ created = [i \in 1..MaxModels |-> NameSeq[MaxModels + 1 - i]]

\* ----------------------------------------------------------------- C2
\* C2: when the base references of the models to build form a cycle, the load
\* call has failed with an error once the instruction builder has run; no model
\* was created and none registered.
C2_CycleFails ==
    (pc # "ready" /\ \E n \in NamesToBuild : OnCycle(n)) =>
        /\ pc = "failed"
        /\ error.message = "Cyclic dependency"
        /\ created = <<>>
        /\ lineModels = <<>>

\* a cycle of two models was rejected
C2_Witness ==
    /\ pc = "failed"
    /\ error.message = "Cyclic dependency"
    /\ {"A", "B"} \subseteq NamesToBuild
    /\ BaseOf("A") = "B"
    /\ BaseOf("B") = "A"

\* ----------------------------------------------------------------- C3
\* an instruction has a definition whose base has no local definition
ExternalBaseOf(j) ==
    LET b == getBaseModelName(instructions[j].definition)
    IN IF Truthy(b) /\ b \notin DOMAIN registry THEN b ELSE Undefined

\* C3 as stated: the final instruction list never has an entry for the name
\* of a base that has no local definition.
C3_NoEntryForExternalBase ==
    Built => \A j \in 1..Len(instructions) :
                Truthy(ExternalBaseOf(j)) => ExternalBaseOf(j) \notin InstructionNames

\* C3 amended: a model to build whose base has no local definition gets an
\* instruction; the list has an entry for that base name only when the name is a
\* key of the models map; every entry is for a declared or discovered name; the
\* model is created by the end of the model pass, and createModel rejects it only
\* when the base does not exist in the registry either.
C3_ExternalBase ==
    Built =>
      /\ \A n \in NamesToBuild :
            (Truthy(BaseOf(n)) /\ BaseOf(n) \notin DOMAIN registry) => n \in InstructionNames
      /\ \A j \in 1..Len(instructions) :
            Truthy(ExternalBaseOf(j)) =>
                /\ ExternalBaseOf(j) \in InstructionNames =>
                      (options.models.present /\ ExternalBaseOf(j) \in DOMAIN options.models.map)
                /\ pc \in {"attach", "done"} => SeqContains(created, instructions[j].name)
      /\ InstructionNames \subseteq DeclaredNames \cup DOMAIN registry
      /\ error.message = "Model not found: model is extending an unknown model" =>
            error.base \notin BuiltinModels

\* a model extending the built-in PersistedModel, which no file defines and the
\* models map does not name, was created
C3_Witness ==
    /\ pc = "done"
    /\ BaseOf("A") = "PersistedModel"
    /\ "PersistedModel" \notin InstructionNames
    /\ SeqContains(created, "A")
    /\ "A" \in lineModelsByName

\* ----------------------------------------------------------------- C4
\* C4: after load(line, root, {dataSource: 'default'}) without a models map on an
\* application that has a datasource named 'default', every discovered model is
\* attached to 'default', and the attach phase did not fail.
C4_DefaultDataSource ==
    (~options.models.present /\ options.dataSource = "default" /\ "default" \in dataSources) =>
        /\ pc = "done" => \A n \in DOMAIN registry :
                              n \in DOMAIN attached /\ attached[n] = "default"
        /\ error.message # "is referencing a dataSource that does not exist"

\* two discovered models were attached to 'default'
C4_Witness ==
    /\ pc = "done"
    /\ ~options.models.present
    /\ options.dataSource = "default"
    /\ {"A", "B"} \subseteq DOMAIN registry
    /\ attached["A"] = "default"
    /\ attached["B"] = "default"

\* ----------------------------------------------------------------- C5
\* C5: with no models map and the option dataSource = N (or dataSouce = N), every
\* instruction carries the config {dataSource: N} and every model is attached to
\* the datasource named N.
C5_BothSpellings ==
    (Built /\ ~options.models.present /\ Truthy(options.dataSource)) =>
        /\ \A j \in 1..Len(instructions) : instructions[j].config = Config(options.dataSource)
        /\ pc = "done" => \A n \in DOMAIN registry :
                              n \in DOMAIN attached /\ attached[n] = options.dataSource

\* ----------------------------------------------------------------- C6
\* C6: after a successful load every model whose instruction carried a config is
\* registered on the application: it is in line.models(), it is reachable under
\* line.models[modelName], and it is a model the registry defines.
C6_Registered ==
    pc = "done" =>
        \A j \in 1..Len(instructions) :
            TruthyConfig(instructions[j].config) =>
                /\ instructions[j]._model = instructions[j].name
                /\ SeqContains(lineModels, instructions[j].name)
                /\ instructions[j].name \in lineModelsByName
                /\ instructions[j].name \in DOMAIN models

\* a models map configured a new model and an existing one; both are registered
C6_Witness ==
    /\ pc = "done"
    /\ options.models.present
    /\ DOMAIN options.models.map = {"A", "PersistedModel"}
    /\ "A" \in DOMAIN registry
    /\ Len(lineModels) = 2
    /\ lineModelsByName = {"A", "PersistedModel"}

\* ----------------------------------------------------------------- C7
\* C7: with an explicit models map the instruction names are exactly the keys of
\* the map and the locally defined bases reachable from them; nothing else is
\* created; an empty map yields no instruction.
C7_ConfiguredModelsOnly ==
    (Built /\ options.models.present) =>
        LET toBuild == NamesToBuild
        IN /\ InstructionNames = toBuild
           /\ Len(instructions) = Cardinality(toBuild)
           /\ \A i \in 1..Len(created) : created[i] \in toBuild
           /\ DOMAIN models \subseteq BuiltinModels \cup toBuild
           /\ DOMAIN options.models.map = {} => instructions = <<>>

\* the map names A, whose base C is pulled in; the discovered B is left out
C7_Witness ==
    /\ pc = "done"
    /\ options.models.present
    /\ DOMAIN options.models.map = {"A"}
    /\ DOMAIN registry = {"A", "B", "C"}
    /\ BaseOf("A") = "C"
    /\ InstructionNames = {"A", "C"}
    /\ created = <<"C", "A">>
    /\ "B" \notin DOMAIN models

\* ----------------------------------------------------------------- C8
\* the model pass threw at an instruction without a definition
FailedAtExistingModelLookup ==
    /\ pc = "failed"
    /\ idx \in 1..Len(instructions)
    /\ instructions[idx]._model = Undefined
    /\ instructions[idx].definition = UndefinedDefinition

\* C8: when an instruction has no definition and the registry has no model of
\* that name, the load fails with 'Cannot configure unknown model <name>'.
C8_CannotConfigureUnknownModel ==
    /\ FailedAtExistingModelLookup =>
          error = Error("Cannot configure unknown model", instructions[idx].name, Undefined)
    /\ (pc \in {"attach", "done"}) =>
          \A j \in 1..Len(instructions) :
              instructions[j].definition = UndefinedDefinition => instructions[j].name \in DOMAIN models

\* ----------------------------------------------------------------- C9
\* C9: when the load call aborts with an error, no model of the call is left
\* registered on the application or attached to a datasource.
C9_NoPartialWiring ==
    pc = "failed" => lineModels = <<>> /\ lineModelsByName = {} /\ attached = <<>>

\* ---------------------------------------------------------------- C10
\* C10: a config whose dataSource is a string naming no datasource of the
\* application makes line.model fail; the model is then neither attached nor
\* registered, and no such config ever gets past the attach pass.
C10_MissingDataSourceIsFatal ==
    /\ error.message = "is referencing a dataSource that does not exist" =>
          /\ pc = "failed"
          /\ error.base \notin dataSources
          /\ instructions[idx].config.dataSource = error.base
          /\ error.model = instructions[idx]._model
          /\ error.model \notin DOMAIN attached
          /\ error.model \notin lineModelsByName
    /\ pc \in {"attach", "done"} =>
          \A j \in 1..Len(instructions) :
              (j < idx /\ TruthyConfig(instructions[j].config)
                       /\ Truthy(instructions[j].config.dataSource)) =>
                  instructions[j].config.dataSource \in dataSources

\* the attach pass stopped at model B, configured with the undefined 'db'
C10_Witness ==
    /\ pc = "failed"
    /\ error = Error("is referencing a dataSource that does not exist", "B", "db")
    /\ "db" \notin dataSources
    /\ "B" \notin DOMAIN attached

\* ---------------------------------------------------------------- C12
\* C12: every instruction whose source supplied a config value, a falsy one such
\* as null included, has been passed to line.model by the end of the attach
\* pass, which registers its model; only an instruction with no config at all
\* is skipped.
C12_FalsyConfigIsAttached ==
    pc = "done" =>
        \A j \in 1..Len(instructions) :
            (instructions[j].config.type # "undefined") <=>
                instructions[j]._model \in lineModelsByName

\* ---------------------------------------------------------------- C13
\* C13: an instruction that exists only because its name is a referenced base
\* (not a key of the models map) has no config, is never registered on the
\* application nor attached to a datasource, and the only error the load can
\* raise for it is that its own base cannot be resolved at creation.
C13_BaseOnlyInstructionNotAttached ==
    options.models.present =>
        \A j \in 1..Len(instructions) :
            LET name == instructions[j].name
            IN name \notin DOMAIN options.models.map =>
                  /\ instructions[j].config = UndefinedConfig
                  /\ instructions[j].definition # UndefinedDefinition
                  /\ name \notin lineModelsByName
                  /\ ~SeqContains(lineModels, name)
                  /\ name \notin DOMAIN attached
                  /\ error.model = name =>
                        error.message = "Model not found: model is extending an unknown model"

\* the map names A only; its base B was created first and left unattached
C13_Witness ==
    /\ pc = "done"
    /\ options.models.present
    /\ DOMAIN options.models.map = {"A"}
    /\ BaseOf("A") = "B"
    /\ created = <<"B", "A">>
    /\ lineModels = <<"A">>
    /\ DOMAIN attached = {"A"}

\* ---------------------------------------------------------------- C19
\* the attach phase has called, or is about to call, line.model
AttachStarted ==
    \/ pc \in {"attach", "done"}
    \/ lineModels # <<>>
    \/ lineModelsByName # {}
    \/ attached # <<>>

\* C19: no model is registered on the application before every instruction has
\* its resolved model, and every model handed to the attach phase is a model
\* the registry defines.
C19_ModelPassBeforeAttach ==
    AttachStarted =>
        /\ \A j \in 1..Len(instructions) :
              Truthy(instructions[j]._model) /\ instructions[j]._model \in DOMAIN models
        /\ \A i \in 1..Len(lineModels) : lineModels[i] \in DOMAIN models
        /\ \A m \in lineModelsByName \cup DOMAIN attached : m \in DOMAIN models

\* the first of three resolved models has been registered
C19_Witness ==
    /\ pc = "attach"
    /\ idx = 2
    /\ Len(instructions) = 3
    /\ Len(lineModels) = 1
    /\ Len(created) = 3

\* ---------------------------------------------------------------- C20
\* the instructions handed to sortByInheritance
GivenInstructions ==
    LET names == addAllBaseModels(registry, ObjectKeys(DeclaredNames))
    IN [i \in 1..Len(names) |-> createModelInstructions(registry, options, names[i])]

WithoutModel(inst) == [inst EXCEPT !._model = Undefined]

\* C20: for an acyclic input the sorted list is a permutation of the
\* instructions given: each of them is in the list exactly once, whether or
\* not it has a definition or a base, and nothing else is.
C20_SortIsPermutation ==
    Built =>
        LET given == GivenInstructions
        IN /\ Len(instructions) = Len(given)
           /\ \A i \in 1..Len(given) :
                 Cardinality({j \in 1..Len(instructions) :
                                 WithoutModel(instructions[j]) = given[i]}) = 1

\* three instructions were sorted: one without a definition, one without a
\* base and one with a base
C20_Witness ==
    /\ pc = "defineModels"
    /\ idx = 1
    /\ Len(instructions) = 3
    /\ \E j \in 1..3 : instructions[j].definition = UndefinedDefinition
    /\ \E j \in 1..3 : /\ instructions[j].definition # UndefinedDefinition
                       /\ getBaseModelName(instructions[j].definition) = Undefined
    /\ \E j \in 1..3 : getBaseModelName(instructions[j].definition) \in DOMAIN registry

\* ---------------------------------------------------------------- C14
\* the mixins of the load call whose export is a valid mixin
ValidMixinNames ==
    {options.mixins[i].name : i \in {i \in 1..Len(options.mixins) :
                                        IsMixin(Require(options.mixins[i].sourceFile))}}

\* C14: once the model pass starts, every mixin of the load call's mixins option
\* whose export is callable or a model class is defined by its name on the model
\* builder, and nothing else is.
C14_MixinsDefinedBeforeModels ==
    pc \in {"defineModels", "attach", "done"} => builderMixins = ValidMixinNames

\* ---------------------------------------------------------------- C15
\* the number of calls of a script's export with the model `name`
Calls(name) == Cardinality({i \in 1..Len(customized) : customized[i] = name})

\* C15: the export of the customization script of a defined model is called
\* exactly once, with the new model, when the model has been created and the
\* export is callable, and never otherwise; a failure at such an instruction is
\* never due to its script, and after the load the model exists and, if it is
\* configured, is registered on the application.
C15_ScriptCalledOnceIffCallable ==
    /\ \A i \in 1..Len(customized) : customized[i] \in DOMAIN models
    /\ \A j \in 1..Len(instructions) :
          LET data == instructions[j]
              callable == Truthy(data.sourceFile) /\ TypeofFunction(Require(data.sourceFile))
          IN /\ Calls(data.name) =
                    IF callable /\ SeqContains(created, data.name) THEN 1 ELSE 0
             /\ (Truthy(data.sourceFile) /\ pc = "failed" /\ idx = j) =>
                    error.message \in {"Model not found: model is extending an unknown model",
                                       "is referencing a dataSource that does not exist"}
             /\ (Truthy(data.sourceFile) /\ pc = "done") =>
                    /\ data.name \in DOMAIN models
                    /\ TruthyConfig(data.config) => data.name \in DOMAIN attached

\* A has a script exporting a function, B one exporting an object: both are
\* attached, and only A's script was called
C15_Witness ==
    /\ pc = "done"
    /\ "A" \in DOMAIN registry /\ registry["A"].sourceFile = "function.js"
    /\ "B" \in DOMAIN registry /\ registry["B"].sourceFile = "object.js"
    /\ customized = <<"A">>
    /\ {"A", "B"} \subseteq DOMAIN attached

\* ---------------------------------------------------------------- C16
\* the base Registry.createModel resolves for a definition
CreateBaseOf(definition) == buildModelOptionsFromConfig(definition).base

\* C16: a definition whose base has no local definition and is not in the
\* registry is never created: the model pass stops at its instruction with
\* 'Model not found: model <name> is extending an unknown model <base>'.
C16_UnknownBaseIsFatal ==
    \A j \in 1..Len(instructions) :
        LET data == instructions[j]
            base == CreateBaseOf(data.definition)
        IN (/\ data.definition # UndefinedDefinition
            /\ Truthy(base)
            /\ base \notin DOMAIN registry
            /\ base \notin DOMAIN models) =>
               /\ data.name \notin DOMAIN models
               /\ ~SeqContains(created, data.name)
               /\ pc \notin {"attach", "done"}
               /\ idx <= j
               /\ (pc = "failed" /\ idx = j) =>
                     error = Error("Model not found: model is extending an unknown model",
                                   data.name, base)

\* B was created, then A, which extends the unknown User, stopped the load
C16_Witness ==
    /\ pc = "failed"
    /\ idx = 2
    /\ created = <<"B">>
    /\ instructions[2].name = "A"
    /\ CreateBaseOf(instructions[2].definition) = "User"
    /\ error = Error("Model not found: model is extending an unknown model", "A", "User")

\* ---------------------------------------------------------------- C18
\* C18: for every definition the base the loader orders by is the base
\* createModel resolves, and when createModel is about to run for an
\* instruction whose resolved parent is a local definition of the build set,
\* the parent has been created.
C18_OrderingBaseIsCreationBase ==
    \A j \in 1..Len(instructions) :
        LET data == instructions[j]
            parent == CreateBaseOf(data.definition)
        IN data.definition # UndefinedDefinition =>
              /\ getBaseModelName(data.definition) = parent
              /\ (/\ pc = "defineModels" /\ idx = j
                  /\ parent \in DOMAIN registry
                  /\ parent \in InstructionNames) => SeqContains(created, parent)

\* ---------------------------------------------------------------- C11
\* the names of the valid definition files of the readable sources
ValidDefinitionNames ==
    UNION {{IF Truthy(f.content) THEN f.content ELSE DeriveName(basename(f)) :
                f \in {tryReadDir(disk[options.sources[i]])[k] :
                          k \in {k \in 1..Len(tryReadDir(disk[options.sources[i]])) :
                             LET g == tryReadDir(disk[options.sources[i]])[k]
                             IN IsDefinitionFile(g) /\ g.stat = "file" /\ g.content # "malformed"}}}
           : i \in 1..Len(options.sources)}

\* C11: no error of the file system or of the parser aborts the discovery, and
\* when it is over every valid definition file of the sources is in the
\* registry.
C11_DiscoveryNeverAborts ==
    ~UseModelDefinitions(options.modelDefinitions) =>
        /\ pc # "failed"
        /\ pc = "ready" => ValidDefinitionNames \subseteq DOMAIN registry

\* ---------------------------------------------------------------- C17
\* the registry a modelDefinitions list stands for: its named entries, the
\* last one of a name
ListedNames ==
    {options.modelDefinitions[i].definition.name : i \in 1..Len(options.modelDefinitions)}
        \ {Undefined}

LastListed(name) ==
    LET at == {i \in 1..Len(options.modelDefinitions) :
                  options.modelDefinitions[i].definition.name = name}
    IN options.modelDefinitions[CHOOSE i \in at : \A k \in at : k <= i]

\* C17: with a non-empty modelDefinitions list no source directory is scanned,
\* and the registry the load continues with holds exactly the named entries of
\* the list; a source directory is scanned only when there is no list.
C17_ListBypassesScan ==
    Len(options.modelDefinitions) >= 1 =>
        /\ scannedSources = <<>>
        /\ pc = "ready" =>
              /\ DOMAIN registry = ListedNames
              /\ \A n \in ListedNames : registry[n].definition = LastListed(n).definition

\* the list names A and holds an entry without a name, ./models holds the
\* definition of B: the registry is A alone
C17_Witness ==
    /\ pc = "ready"
    /\ Len(options.modelDefinitions) = 2
    /\ options.modelDefinitions[1].definition.name = Undefined
    /\ options.modelDefinitions[2].definition.name = "A"
    /\ Len(tryReadDir(disk["./models"])) = 2
    /\ DOMAIN registry = {"A"}
    /\ scannedSources = <<>>

\* ---------------------------------------------------------------- C21
\* C21: for every registry, cyclic ones included, and every list of declared
\* names the work queue of addAllBaseModels returns a list that holds no name
\* twice, holds every declared name, and holds the base of each of its names
\* whenever that base is locally defined.
C21_BaseExpansion ==
    LET result == addAllBaseModels(registry, ObjectKeys(DeclaredNames))
        names == {result[i] : i \in 1..Len(result)}
    IN /\ \A i, j \in 1..Len(result) : result[i] = result[j] => i = j
       /\ DeclaredNames \subseteq names
       /\ \A n \in names : BaseOf(n) \in DOMAIN registry => BaseOf(n) \in names
       /\ names \subseteq DeclaredNames \cup DOMAIN registry

\* the map names A alone, A, B and C extend each other in a cycle: the load has
\* expanded the names to the three models before the sort rejected them
C21_Witness ==
    /\ pc = "failed"
    /\ error.message = "Cyclic dependency"
    /\ options.models.present
    /\ DOMAIN options.models.map = {"A"}
    /\ BaseOf("A") = "B" /\ BaseOf("B") = "C" /\ BaseOf("C") = "A"
    /\ Len(addAllBaseModels(registry, ObjectKeys(DeclaredNames))) = 3

\* ---------------------------------------------------------------- C27
\* the number of createModel calls the model pass made for the model `name`
Created(name) == Cardinality({i \in 1..Len(created) : created[i] = name})

\* C27: the model pass calls createModel once for every instruction with a
\* definition it visits, and so exactly once for each of them when it returns,
\* and never for an instruction without a definition, whose resolved model is
\* the model of that name the registry held before the pass.
C27_CreateOncePerDefinition ==
    /\ \A j \in 1..Len(instructions) :
          LET data == instructions[j]
              visited == Truthy(data._model)
          IN IF data.definition = UndefinedDefinition
             THEN /\ Created(data.name) = 0
                  /\ visited => /\ data._model = data.name
                                /\ data.name \in DOMAIN models
                                /\ data.name \in BuiltinModels
             ELSE /\ Created(data.name) = (IF visited THEN 1 ELSE 0)
                  /\ pc \in {"attach", "done"} => Created(data.name) = 1
    /\ \A i \in 1..Len(created) :
          \E j \in 1..Len(instructions) :
              /\ instructions[j].name = created[i]
              /\ instructions[j].definition # UndefinedDefinition

\* A is created, the configured built-in PersistedModel is looked up
C27_Witness ==
    /\ pc = "done"
    /\ Len(instructions) = 2
    /\ created = <<"A">>
    /\ \E j \in 1..2 : /\ instructions[j].definition = UndefinedDefinition
                       /\ instructions[j]._model = "PersistedModel"
    /\ \E j \in 1..2 : /\ instructions[j].definition # UndefinedDefinition
                       /\ instructions[j]._model = "A"

\* ---------------------------------------------------------------- C26
\* the definition files findModelDefinitions loads, as <<position of the source
\* in the sources list, position of the file in the listing of the source>>
ScannedFiles ==
    UNION {{<<i, k>> : k \in {k \in 1..Len(tryReadDir(disk[options.sources[i]])) :
                                 IsDefinitionFile(tryReadDir(disk[options.sources[i]])[k])}}
           : i \in {i \in 1..Len(options.sources) : disk[options.sources[i]].exists}}

\* the entry loadModelDefinition makes of a scanned file
EntryOf(p) ==
    LET files == tryReadDir(disk[options.sources[p[1]]])
    IN loadModelDefinition(files[p[2]], files).entry

\* q is processed before p
ProcessedBefore(q, p) == q[1] < p[1] \/ (q[1] = p[1] /\ q[2] < p[2])

\* the scanned files that yield the model name n
Yielding(n) == {p \in ScannedFiles : EntryOf(p).definition.name = n}

\* C26: after a scan the registry holds, for every model name a definition file
\* yields, the whole entry of the file yielding it that was processed last (later
\* source directory, then later file of the listing), and holds no other name.
C26_LastWriterWins ==
    (pc = "ready" /\ ~UseModelDefinitions(options.modelDefinitions)) =>
        LET scanned == ScannedFiles
        IN /\ DOMAIN registry =
                 {EntryOf(p).definition.name : p \in scanned} \ {Undefined, Null}
           /\ \A n \in DOMAIN registry :
                 \E p \in Yielding(n) :
                     /\ \A q \in Yielding(n) : q = p \/ ProcessedBefore(q, p)
                     /\ registry[n] = EntryOf(p)

\* ./models/a.json and ./more/b.json both yield A: the registry holds the
\* definition and the script of ./more, the later source
C26_Witness ==
    /\ pc = "ready"
    /\ options.sources = <<"./models", "./more">>
    /\ disk["./models"] = Dir(<<File("a", ".js", "file", Undefined),
                                File("a", ".json", "file", Undefined)>>)
    /\ Cardinality(Yielding("A")) = 2
    /\ registry["A"] = [definition |-> Definition("A", "PersistedModel", Undefined),
                        sourceFile |-> "b.js"]

\* ---------------------------------------------------------------- C30
\* the files of a source directory a script of the schema file at p can be:
\* siblings with its base name whose extension require can load as code
ScriptSiblings(p) ==
    LET files == tryReadDir(disk[options.sources[p[1]]])
    IN {k \in 1..Len(files) :
           /\ files[k].stat = "file"
           /\ basename(files[k]) = basename(files[p[2]])
           /\ extname(files[k]) \in RequireExtensions \ {".json", ".node"}}

\* C30: after a scan every schema file that yields a name is registered, and
\* the script of its entry is undefined when the directory holds no sibling
\* file with its base name and an extension that loads as code other than
\* .json and .node, and is such a sibling otherwise.
C30_ScriptIsLoadableSibling ==
    (pc = "ready" /\ ~UseModelDefinitions(options.modelDefinitions)) =>
        \A p \in ScannedFiles :
            LET files == tryReadDir(disk[options.sources[p[1]]])
                entry == EntryOf(p)
            IN Truthy(entry.definition.name) =>
                  /\ entry.definition.name \in DOMAIN registry
                  /\ IF ScriptSiblings(p) = {}
                     THEN entry.sourceFile = Undefined
                     ELSE \E k \in ScriptSiblings(p) : entry.sourceFile = FileName(files[k])
                  /\ (\A q \in Yielding(entry.definition.name) :
                         q = p \/ ProcessedBefore(q, p)) =>
                            registry[entry.definition.name].sourceFile = entry.sourceFile

\* a.json next to a.txt: A is registered without a script
C30_Witness ==
    /\ pc = "ready"
    /\ options.sources = <<"./models">>
    /\ disk["./models"] = Dir(<<File("a", ".json", "file", Undefined),
                                File("a", ".txt", "file", Undefined)>>)
    /\ DOMAIN registry = {"A"}
    /\ registry["A"].sourceFile = Undefined

\* ---------------------------------------------------------------- C22
\* the positions of `acls` whose entry has the key of `acl`
Matching(acls, acl) ==
    {j \in 1..Len(acls) : /\ acls[j].property = acl.property
                          /\ acls[j].accessType = acl.accessType
                          /\ acls[j].principalType = acl.principalType
                          /\ acls[j].principalId = acl.principalId}

\* C22: in a configureModel call with an acls array, each entry of the config,
\* taken in order, replaces in place the first entry of the model's list that
\* has its property, accessType, principalType and principalId, and is appended
\* at the end when there is none; every other entry keeps its content and its
\* position.
C22_AclMerge ==
    \A c \in 1..Len(configured) :
        modelConfig.acls.type = "array" =>
            LET call == configured[c]
                acls == modelConfig.acls.list
                steps == call.aclSteps
            IN /\ Len(steps) = Len(acls) + 1
               /\ steps[1] = (IF call.before.acls.type = "array"
                              THEN call.before.acls.list ELSE <<>>)
               /\ call.after.acls = ArrayValue(steps[Len(steps)])
               /\ \A i \in 1..Len(acls) :
                     LET old == steps[i]
                         new == steps[i + 1]
                         matching == Matching(old, acls[i])
                     IN IF matching = {}
                        THEN new = Append(old, acls[i])
                        ELSE LET first == CHOOSE j \in matching : \A m \in matching : j <= m
                             IN /\ Len(new) = Len(old)
                                /\ new[first] = acls[i]
                                /\ \A j \in (1..Len(old)) \ {first} : new[j] = old[j]

\* the first of two entries for everyone is replaced, the entry for the owner
\* is appended, the entry for find stays where it was
C22_Witness ==
    /\ Len(configured) = 1
    /\ modelConfig.acls = ArrayValue(<<Rule("*", "$everyone", "DENY"),
                                       Rule("*", "$owner", "ALLOW")>>)
    /\ configured[1].before.acls = ArrayValue(<<Rule("find", "$everyone", "ALLOW"),
                                                Rule("*", "$everyone", "ALLOW")>>)
    /\ configured[1].after.acls = ArrayValue(<<Rule("find", "$everyone", "ALLOW"),
                                               Rule("*", "$everyone", "DENY"),
                                               Rule("*", "$owner", "ALLOW")>>)

\* ---------------------------------------------------------------- C23
\* the settings of a call before its options are merged
BeforeOptions(call) ==
    configureACLs(configureRelations(call.before, modelConfig), modelConfig)

\* C23: in a configureModel call whose options are an object, the setting of
\* each of the keys base, super, relations, acls and dataSource present in the
\* options is what it was before the options were merged, the options raise
\* no error, and every other key of the options is copied into the settings.
C23_OptionsNeverChangeStructure ==
    \A c \in 1..Len(configured) :
        IsObject(modelConfig.options) =>
            LET call == configured[c]
                opts == modelConfig.options.map
            IN /\ \A p \in DOMAIN opts :
                     IF p \in {"base", "super", "relations", "acls", "dataSource"}
                     THEN GetSetting(call.after, p) = GetSetting(BeforeOptions(call), p)
                     ELSE GetSetting(call.after, p) = StringValue(opts[p])
               /\ ~TruthyDataSource(modelConfig.dataSource) => call.error = NoError

\* ---------------------------------------------------------------- C24
\* the settings the relation, ACL and settings merges of a call leave
Merged(call) == configureSettings(BeforeOptions(call), modelConfig)

\* C24: a configureModel call attaches the model, to config.dataSource, if and
\* only if config.dataSource is a DataSource; when it is null, false or absent
\* the model is attached to nothing, no error is raised, and the relations,
\* the acls and the settings are merged as in any other call.
C24_AttachIffDataSource ==
    \A c \in 1..Len(configured) :
        LET call == configured[c]
            ds == modelConfig.dataSource
        IN /\ Truthy(call.dataSource) <=> ds.type = "DataSource"
           /\ Truthy(call.dataSource) =>
                 /\ call.dataSource = ds.name
                 /\ "A" \in DOMAIN attached /\ attached["A"] = ds.name
           /\ ~Truthy(call.dataSource) => "A" \notin DOMAIN attached
           /\ ds.type \in {"null", "false", "undefined"} =>
                 /\ call.error = NoError
                 /\ error = NoError
                 /\ call.after = Merged(call)
           /\ call.error # NoError => ds.type \in {"string", "object"}

\* config.dataSource is null: the relations, acls and settings of the config
\* are merged and the model is attached to nothing
C24_Witness ==
    /\ Len(configured) = 1
    /\ modelConfig.dataSource.type = "null"
    /\ IsObject(modelConfig.relations)
    /\ configured[1].after # configured[1].before
    /\ configured[1].after.own["strict"] = "on"
    /\ attached = <<>>
    /\ error = NoError

\* ---------------------------------------------------------------- C25
\* C25: when a configureModel call attaches the model, the settings the
\* datasource sees at the call of attachTo are the settings the relation, ACL
\* and settings merges of that call leave.
C25_AttachAfterMerges ==
    \A c \in 1..Len(configured) :
        LET call == configured[c]
        IN /\ Len(call.observed) = (IF Truthy(call.dataSource) THEN 1 ELSE 0)
           /\ Truthy(call.dataSource) =>
                 /\ call.observed[1] = call.after
                 /\ call.observed[1] = Merged(call)

\* the datasource db sees the relation owner the same call added
C25_Witness ==
    /\ Len(configured) = 1
    /\ configured[1].dataSource = "db"
    /\ ~IsObject(configured[1].before.relations)
    /\ IsObject(configured[1].observed[1].relations)
    /\ "owner" \in DOMAIN configured[1].observed[1].relations.map
    /\ attached["A"] = "db"

\* ---------------------------------------------------------------- C29
\* C29: a second configureModel call with the same config leaves the
\* relations, the acls and the settings the first call left: the acls list is
\* no longer and nothing of it has changed.
C29_MergeIsIdempotent ==
    \A c \in 2..Len(configured) :
        LET first == configured[c - 1].after
            second == configured[c].after
        IN /\ configured[c].before = first
           /\ second.relations = first.relations
           /\ second.acls = first.acls
           /\ Len(second.acls.list) = Len(first.acls.list)
           /\ second.own = first.own

\* the first call appends two entries to the acls, the second none
C29_Witness ==
    /\ Len(configured) = 2
    /\ modelConfig.acls.type = "array"
    /\ Len(modelConfig.acls.list) = 2
    /\ configured[1].before.acls = ArrayValue(<<Rule("*", "$everyone", "ALLOW")>>)
    /\ Len(configured[1].after.acls.list) = 3
    /\ Len(configured[2].after.acls.list) = 3

\* ---------------------------------------------------------------- C28
\* the module directories that hold a match of the expression
MatchingDirs == {i \in 1..Len(resolving.moduleDirs) : resolving.moduleDirs[i] # "none"}

\* the call returned the match of the first module directory that has one,
\* undefined when none has
ReturnedFirstModuleMatch ==
    IF MatchingDirs = {} THEN resolved = UndefinedPath
    ELSE /\ resolved.where = "moduleDir"
         /\ resolved.dir \in MatchingDirs
         /\ \A i \in MatchingDirs : resolved.dir <= i

\* the expression is tried from the root first: it is bare and the options
\* given do not set strict
TriedFromRoot ==
    /\ resolving.kind = "bare"
    /\ resolving.options.present
    /\ resolving.options.strict # "true"

\* C28 as stated: the resolver never throws, searches the module directories
\* only for a bare name, returns undefined for an absolute, './' or '..'
\* expression whose candidate neither exists nor resolves as a module, and
\* returns for a bare name the first existing match of the module directories,
\* or undefined when there is none.
C28_BareNameSearchesModuleDirs ==
    pc = "resolved" =>
        /\ error = NoError
        /\ resolved.where = "moduleDir" => resolving.kind = "bare"
        /\ (resolving.kind # "bare" /\ resolving.candidate = "none") =>
              resolved = UndefinedPath
        /\ resolving.kind = "bare" => ReturnedFirstModuleMatch

\* C28, amended: as stated, except that a bare name whose call does not set
\* strict is tried from the root first, and the candidate is returned when it
\* exists or resolves as a module; the module directories are searched
\* otherwise.
C28_BareNameTriedFromRootFirst ==
    pc = "resolved" =>
        /\ error = NoError
        /\ resolved.where = "moduleDir" => resolving.kind = "bare"
        /\ (resolving.kind # "bare" /\ resolving.candidate = "none") =>
              resolved = UndefinedPath
        /\ resolving.kind = "bare" =>
              IF TriedFromRoot /\ resolving.candidate # "none"
              THEN resolved.where = "candidate"
              ELSE ReturnedFirstModuleMatch

\* findModelDefinitions resolves the source 'models' with {strict: false}: the
\* directory exists under the root and is returned, though a module directory
\* holds a match as well
C28_Witness ==
    /\ pc = "resolved"
    /\ resolving.kind = "bare"
    /\ resolving.options = ResolveOptions("false", Undefined)
    /\ resolving.candidate = "exists"
    /\ MatchingDirs # {}
    /\ resolved = Resolved("candidate", 0, "path")

\* ---------------------------------------------------------------- C31
\* C31: in a configureModel call whose relations are an object, the model's
\* relations afterwards have the keys they had and the keys of the config: a
\* key of the config that is new holds the relation of the config, an existing
\* key holds the existing relation with the properties of the config written
\* over it (the config wins on a shared property, the other existing
\* properties are kept), and a key the config does not name is unchanged.
C31_RelationMergeIsShallow ==
    \A c \in 1..Len(configured) :
        IsObject(modelConfig.relations) =>
            LET call == configured[c]
                old == IF IsObject(call.before.relations)
                       THEN call.before.relations.map ELSE <<>>
                added == modelConfig.relations.map
                new == call.after.relations.map
            IN /\ call.after.relations.type = "object"
               /\ DOMAIN new = DOMAIN old \cup DOMAIN added
               /\ \A key \in DOMAIN new :
                     IF key \notin DOMAIN added THEN new[key] = old[key]
                     ELSE IF key \notin DOMAIN old THEN new[key] = added[key]
                     ELSE /\ DOMAIN new[key] = DOMAIN old[key] \cup DOMAIN added[key]
                          /\ \A prop \in DOMAIN added[key] : new[key][prop] = added[key][prop]
                          /\ \A prop \in DOMAIN old[key] \ DOMAIN added[key] :
                                new[key][prop] = old[key][prop]

\* orders keeps its type and takes the model of the config, customer is new,
\* owner is not named and stays
C31_Witness ==
    /\ Len(configured) = 1
    /\ modelConfig.relations.map =
          ("orders" :> ("model" :> "Order")) @@ ("customer" :> ("type" :> "hasMany"))
    /\ configured[1].before.relations.map =
          ("orders" :> (("type" :> "belongsTo") @@ ("model" :> "User")))
          @@ ("owner" :> ("type" :> "hasMany"))
    /\ configured[1].after.relations.map =
          ("orders" :> (("type" :> "belongsTo") @@ ("model" :> "Order")))
          @@ ("owner" :> ("type" :> "hasMany")) @@ ("customer" :> ("type" :> "hasMany"))

\* ---------------------------------------------------------------- C32
\* C32: every key of the registry is the non-empty name of the definition
\* stored under it, and after a scan every key is the name, given in the
\* content or derived from the base name, of a file listed in a source
\* directory that resolved, whose name does not start with '_' and whose
\* extension is .json; a file whose name is empty registers nothing.
C32_OnlyNamedSchemaFiles ==
    /\ \A n \in DOMAIN registry : Truthy(n) /\ registry[n].definition.name = n
    /\ ~UseModelDefinitions(options.modelDefinitions) =>
          \A n \in DOMAIN registry :
              \E i \in 1..Len(options.sources) :
                  /\ disk[options.sources[i]].exists
                  /\ disk[options.sources[i]].readable
                  /\ \E k \in 1..Len(disk[options.sources[i]].files) :
                        LET f == disk[options.sources[i]].files[k]
                        IN /\ f.base # "_c"
                           /\ f.ext = ".json"
                           /\ f.stat = "file"
                           /\ f.content # "malformed"
                           /\ n = (IF Truthy(f.content) THEN f.content
                                   ELSE DeriveName(f.base))

\* _c.json and -.json are listed next to a.json: only A is registered
C32_Witness ==
    /\ pc = "ready"
    /\ options.sources = <<"./models">>
    /\ \E k \in 1..Len(disk["./models"].files) : disk["./models"].files[k].base = "a"
    /\ \E k \in 1..Len(disk["./models"].files) : disk["./models"].files[k].base \in {"_c", "-"}
    /\ disk["./models"].readable
    /\ DOMAIN registry = {"A"}

====
